---- MODULE Spec2Model ----
(***************************************************************************)
(* Voice session orchestrator of Product-Catalog-Voice-Agent: the Node.js  *)
(* backend (server/index.js, the version with MIN_TRANSCRIPT_WORDS) for    *)
(* one correlation id: audio receiver, segment scheduler, finalize barrier *)
(* and answer relay.                                                       *)
(*                                                                         *)
(* Text is a sequence of one-character strings, so that normalisation,     *)
(* joining and word counting are computed as the code computes them.       *)
(* One TLA+ step is one JavaScript task: a WebSocket message handler, a    *)
(* promise continuation or an EventSource callback.  Promise continuations *)
(* that the code queues as microtasks run before any other task: while     *)
(* `ready` is non-empty only BarrierFire is enabled.                       *)
(***************************************************************************)
EXTENDS Integers, Sequences, FiniteSets, TLC

\* ------------------------------------------------------------------ bounds
MaxBytes == 3       \* audio bytes received over the whole run
MaxStarts == 1      \* `start` commands handled
MaxEnds == 2        \* `end` commands handled
MaxUpstream == 2    \* upstream events delivered to the relays
MaxCalls == 2       \* calls the user starts, and calls the user ends
MaxVoiced == 2      \* frames in which the client detects voice
MaxServed == 2      \* error and llm done/error messages the client handles
MaxIgnored == 1     \* control messages the server ignores
MaxSpeaks == 3      \* speak() calls

\* -------------------------------------------------------- program constants
\* SEG_BYTES = floor(SEG_MS / 1000 * BYTES_PER_S); SEG_MS is configuration,
\* scaled down here so that a segment is two bytes.
SEG_BYTES == 2
MIN_TRANSCRIPT_WORDS == 5

NULL == "null"

\* ------------------------------------------------------------------- text
SP == " "
WS == {" ", "\t", "\n"}
Lowers == {"a","b","c","d","e","f","g","h","i","j","k","l","m",
           "n","o","p","q","r","s","t","u","v","w","x","y","z"}
Digits == {"0","1","2","3","4","5","6","7","8","9"}

\* String.prototype.toLowerCase on one character
LowerChar(c) ==
  CASE c = "A" -> "a" [] c = "B" -> "b" [] c = "C" -> "c" [] c = "D" -> "d"
    [] c = "E" -> "e" [] c = "F" -> "f" [] c = "G" -> "g" [] c = "H" -> "h"
    [] c = "I" -> "i" [] c = "J" -> "j" [] c = "K" -> "k" [] c = "L" -> "l"
    [] c = "M" -> "m" [] c = "N" -> "n" [] c = "O" -> "o" [] c = "P" -> "p"
    [] c = "Q" -> "q" [] c = "R" -> "r" [] c = "S" -> "s" [] c = "T" -> "t"
    [] c = "U" -> "u" [] c = "V" -> "v" [] c = "W" -> "w" [] c = "X" -> "x"
    [] c = "Y" -> "y" [] c = "Z" -> "z" [] OTHER -> c

ToLower(s) == [i \in 1..Len(s) |-> LowerChar(s[i])]

\* /[a-z0-9]/ on a lower-cased character
IsAlnumLower(c) == c \in Lowers \cup Digits

\* s.replace(/\s+/g, " "): every maximal run of whitespace becomes one space
RECURSIVE CollapseWS(_)
CollapseWS(s) ==
  IF s = <<>> THEN <<>>
  ELSE IF Head(s) \in WS
       THEN IF Len(s) > 1 /\ s[2] \in WS
            THEN CollapseWS(Tail(s))
            ELSE <<SP>> \o CollapseWS(Tail(s))
       ELSE <<Head(s)>> \o CollapseWS(Tail(s))

RECURSIVE TrimLeft(_)
TrimLeft(s) ==
  IF s # <<>> /\ Head(s) \in WS THEN TrimLeft(Tail(s)) ELSE s

RECURSIVE TrimRight(_)
TrimRight(s) ==
  IF s # <<>> /\ s[Len(s)] \in WS
  THEN TrimRight(SubSeq(s, 1, Len(s) - 1)) ELSE s

\* String.prototype.trim
Trim(s) == TrimRight(TrimLeft(s))

\* s.replace(/O[^C]*C/g, " ") for an opening delimiter O and a closing
\* delimiter C: leftmost non-overlapping matches, each from an O to the first
\* C after it; an O with no C after it stays.
RECURSIVE StripDelimited(_, _, _)
StripDelimited(s, o, c) ==
  IF s = <<>> THEN <<>>
  ELSE IF Head(s) = o /\ \E j \in 2..Len(s) : s[j] = c
       THEN LET j == CHOOSE k \in 2..Len(s) :
                       /\ s[k] = c
                       /\ \A m \in 2..(k - 1) : s[m] # c
            IN  <<SP>> \o StripDelimited(SubSeq(s, j + 1, Len(s)), o, c)
       ELSE <<Head(s)>> \o StripDelimited(Tail(s), o, c)

\* s.replace(/[^a-z0-9]+/g, "")
RECURSIVE KeepAlnum(_)
KeepAlnum(s) ==
  IF s = <<>> THEN <<>>
  ELSE IF IsAlnumLower(Head(s))
       THEN <<Head(s)>> \o KeepAlnum(Tail(s))
       ELSE KeepAlnum(Tail(s))

\* the set NON_SPEECH_NORMALIZED, each entry as its characters (the last
\* entry is the one-character string U+2026, the horizontal ellipsis)
NON_SPEECH_NORMALIZED == {
  <<"n","o","i","s","e">>,
  <<"b","a","c","k","g","r","o","u","n","d","n","o","i","s","e">>,
  <<"b","a","c","k","g","r","o","u","n","d","s","o","u","n","d">>,
  <<"b","a","c","k","g","r","o","u","n","d">>,
  <<"s","i","l","e","n","c","e">>,
  <<"m","u","s","i","c">>,
  <<"i","n","a","u","d","i","b","l","e">>,
  <<"u","n","i","n","t","e","l","l","i","g","i","b","l","e">>,
  <<"a","p","p","l","a","u","s","e">>,
  <<"l","a","u","g","h","t","e","r">>,
  <<"l","a","u","g","h","i","n","g">>,
  <<"c","o","u","g","h">>,
  <<"c","o","u","g","h","i","n","g">>,
  <<"b","r","e","a","t","h">>,
  <<"b","r","e","a","t","h","i","n","g">>,
  <<"c","l","i","c","k">>,
  <<"c","l","i","c","k","i","n","g">>,
  <<"c","l","i","c","k","s">>,
  <<"s","i","g","h">>,
  <<"s","i","g","h","i","n","g">>,
  <<"a","m","b","i","e","n","t">>,
  <<"a","m","b","i","e","n","t","n","o","i","s","e">>,
  <<"a","m","b","i","e","n","t","m","u","s","i","c">>,
  <<"s","o","u","n","d">>,
  <<"s","o","u","n","d","s">>,
  <<".",".",".">>,
  <<"U+2026">>}

\* a normalisation that strips annotations and never consults the vocabulary
NormalizeWithoutVocabulary(rawText) ==
  Trim(CollapseWS(StripDelimited(StripDelimited(StripDelimited(
    Trim(rawText), "[", "]"), "(", ")"), "{", "}")))

\* normalizeWhisperText(rawText)
normalizeWhisperText(rawText) ==
  LET t0 == Trim(rawText)
      t1 == StripDelimited(t0, "[", "]")
      t2 == StripDelimited(t1, "(", ")")
      t3 == StripDelimited(t2, "{", "}")
      trimmed == Trim(CollapseWS(t3))
      lower == ToLower(trimmed)
      inner == KeepAlnum(SubSeq(lower, 2, Len(lower) - 1))
      collapsed == KeepAlnum(lower)
  IN  IF rawText = <<>> THEN <<>>
      ELSE IF t0 = <<>> THEN <<>>
      ELSE IF trimmed = <<>> THEN <<>>
      ELSE IF ~ \E i \in 1..Len(lower) : IsAlnumLower(lower[i]) THEN <<>>
      ELSE IF /\ lower[1] = "[" /\ lower[Len(lower)] = "]"
              /\ (inner = <<>> \/ inner \in NON_SPEECH_NORMALIZED) THEN <<>>
      ELSE IF collapsed \in NON_SPEECH_NORMALIZED THEN <<>>
      ELSE trimmed

\* text.trim().split(/\s+/).filter(Boolean).length: the number of maximal
\* runs of non-whitespace characters
countWords(text) ==
  Cardinality({i \in 1..Len(text) :
                 /\ text[i] \notin WS
                 /\ (i = 1 \/ text[i - 1] \in WS)})

\* Array.prototype.join(" ") on a sequence of texts
RECURSIVE JoinSpace(_)
JoinSpace(texts) ==
  IF texts = <<>> THEN <<>>
  ELSE IF Len(texts) = 1 THEN texts[1]
  ELSE texts[1] \o <<SP>> \o JoinSpace(Tail(texts))


\* Array.prototype.sort((a, b) => a.idx - b.idx) on a copy: a stable sort by
\* idx, here by insertion
RECURSIVE InsertByIdx(_, _)
InsertByIdx(sorted, r) ==
  IF sorted = <<>> THEN <<r>>
  ELSE IF r.idx < Head(sorted).idx THEN <<r>> \o sorted
  ELSE <<Head(sorted)>> \o InsertByIdx(Tail(sorted), r)

RECURSIVE SortLoop(_, _)
SortLoop(rs, acc) ==
  IF rs = <<>> THEN acc ELSE SortLoop(Tail(rs), InsertByIdx(acc, Head(rs)))

\* the results in push order: what the aggregate would be without the sort
UnsortedByIdx(rs) == rs

SortByIdx(rs) == SortLoop(rs, <<>>)

\* .filter((seg) => seg.text)
RECURSIVE FilterText(_)
FilterText(rs) ==
  IF rs = <<>> THEN <<>>
  ELSE IF Head(rs).text # <<>> THEN <<Head(rs)>> \o FilterText(Tail(rs))
  ELSE FilterText(Tail(rs))

\* .map((r) => r.text).join(" ").replace(/\s+/g, " ").trim()
JoinTexts(rs) ==
  Trim(CollapseWS(JoinSpace([i \in 1..Len(rs) |-> rs[i].text])))

\* the final transcript of the finalize barrier (server/index.js, `end`)
FinalTranscript(rs) == JoinTexts(FilterText(SortByIdx(rs)))

\* an aggregate of the results in the order they were pushed
PartialInPushOrder(rs) == JoinTexts(rs)

\* the aggregate of a partial_asr (server/index.js, audio `message`)
PartialAggregate(rs) == JoinTexts(SortByIdx(rs))

\* ------------------------------------------------- the engines' outputs
RAW_NOISE ==
  <<"[","n","o","i","s","e","]">>
RAW_SILENCE ==
  <<" ","S","i","l","e","n","c","e","."," ">>
RAW_TWO ==
  <<"a","r","e"," ","y","o","u">>
RAW_THREE ==
  <<"H","e","l","l","o"," "," ","t","h","e","r","e"," ","(","u","h",")"," ","h","o","w">>
RAW_FIVE ==
  <<"o","n","e"," ","t","w","o"," ","t","h","r","e","e"," ","f","o","u","r"," ","f","i","v","e">>

\* what the engine prints for the three segments of the example turn, and
\* the audio bytes of that turn
RAW_EXAMPLE ==
  <<"h","e","l","l","o"," ","t","h","e","r","e"," ","h","o","w"," ","a","r","e">>
ExampleOutputs == << <<>>, RAW_EXAMPLE, <<>> >>
ExampleBytes == Len(ExampleOutputs) * SEG_BYTES

\* What the Transcription Engine may print for one segment: nothing, an
\* annotation, a non-speech word, and speech of two and of three words.
EngineOutputs == {<<>>, RAW_NOISE, RAW_SILENCE, RAW_TWO, RAW_THREE}


\* What the Answer Service may put in the data field of one event, and
\* JSON.parse of it.
Payloads == {"", "{\"text\":\"hi\"}", "plain text"}

JSONParse(raw) ==
  CASE raw = "{\"text\":\"hi\"}" -> [ok |-> TRUE, val |-> "object text=hi"]
    [] OTHER -> [ok |-> FALSE, val |-> NULL]

NamedEvents == {"opener", "final", "done", "error"}

\* ------------------------------------------------------------------ state
VARIABLES
  ctrlConn,         \* control WebSocket connections: "none", "open", "closed"
  audioConn,        \* audio WebSocket connections
  clients,          \* the registry: the correlation ids that have a session
  controlWS,        \* st.controlWS: a control connection, or 0 for null
  audioWS,          \* st.audioWS
  cur,              \* st.cur: the rolling buffer, bytes named by arrival number
  results,          \* st.results: [idx, text] in push order (gen: the job's tag)
  jobs,             \* st.jobs: the job promises, by task number
  segIdx,           \* st.segIdx
  totalBytes,       \* st.totalBytes
  ended,            \* st.ended
  sessionId,        \* st.sessionId: 0 for null
  transcriptionGen, \* st.transcriptionGen
  tasks,            \* every whisper job spawned: generation, idx, kind, status
  barriers,         \* every Promise.allSettled(st.jobs) of an `end`
  ready,            \* barriers whose callback is queued as a microtask
  creating,         \* every createFastapiSession() call of a `start`
  relays,           \* every pipeLLM call: its EventSource and what it received
  ctrlOut,          \* every message delivered to a control socket, in order
  rxCount,          \* audio bytes received so far (names the bytes)
  ignored,          \* control messages the handler returned from untouched
  textBytes,        \* the bytes that arrived in text frames on audio channels
  client,           \* useCallSession: status and the refs of the hook
  clientLog,        \* what the client detected, sent and was told, in order
  effects,          \* what the client's last handler did to the audio
                    \* channel and to the speech output
  queueRef,         \* useSpeechSynthesis: the texts waiting to be spoken
  activeUtteranceRef, \* the utterance the hook holds for active, or 0
  synth,            \* window.speechSynthesis: its queue of utterances, whether
                    \* the first one has begun to be spoken, and the cancelled
                    \* utterance it still reports as speaking
  callbacks,        \* utterances whose end or error event is yet to be handled
  spoken,           \* the texts that began to be spoken, in order
  cancelledTexts,   \* the texts a cancel removed before they were spoken
  calls             \* speak() calls so far; call i speaks text i

protocolVars == <<ignored, textBytes>>

serverVars == <<ctrlConn, audioConn, clients, controlWS, audioWS, cur, results,
                jobs, segIdx, totalBytes, ended, sessionId, transcriptionGen,
                tasks, barriers, ready, creating, relays, ctrlOut, rxCount,
                protocolVars>>

clientVars == <<client, clientLog, effects>>

speechVars == <<queueRef, activeUtteranceRef, synth, callbacks, spoken,
                cancelledTexts, calls>>

vars == <<serverVars, clientVars, speechVars>>

connVars == <<ctrlConn, audioConn, clients, controlWS, audioWS>>
bufVars == <<cur, results, jobs, segIdx, totalBytes, ended, transcriptionGen>>

CID == "c1"
\* one control connection and one audio connection of the correlation id
CtrlIds == {1}
AudioIds == {1}
\* an audio frame carries up to one byte more than a segment
FrameSizes == 1..(SEG_BYTES + 1)

\* ---------------------------------------------------------------- messages
NoData == [tag |-> "none", val |-> NULL, wordTotal |-> 0]
Structured(v) == [tag |-> "structured", val |-> v, wordTotal |-> 0]
RawText(v) == [tag |-> "text", val |-> v, wordTotal |-> 0]
EmptyObject == [tag |-> "structured", val |-> "{}", wordTotal |-> 0]
\* a synthetic done that does not report the word count
InsufficientWithoutCount(n) ==
  [tag |-> "structured", val |-> "insufficient_words", wordTotal |-> 0]

Insufficient(n) ==
  [tag |-> "structured", val |-> "insufficient_words", wordTotal |-> n]

\* One control-channel message.  ws is the socket it went to; barrier and
\* relay name the callback that sent it (0: none) and are not on the wire.
Msg(type, event, text, idx, sid, data, error, barrier, relay) ==
  [type |-> type, event |-> event, text |-> text, idx |-> idx,
   sessionId |-> sid, data |-> data, error |-> error, ws |-> 0,
   barrier |-> barrier, relay |-> relay]

AckMsg(sid) == Msg("ack", NULL, <<>>, -1, sid, NoData, NULL, 0, 0)
ErrorMsg == Msg("error", NULL, <<>>, -1, 0, NoData, "session_create_failed", 0, 0)
PartialMsg(idx, text) == Msg("partial_asr", NULL, text, idx, 0, NoData, NULL, 0, 0)
FinalMsg(text, b) == Msg("final_asr", NULL, text, -1, 0, NoData, NULL, b, 0)
LlmMsg(event, data, b, r) == Msg("llm", event, <<>>, -1, 0, data, NULL, b, r)

\* ws.send(JSON.stringify(m)) on control socket w: delivered when the socket
\* is open, dropped otherwise (w = 0 is `st.controlWS?.send` on null)
Send(out, w, m) ==
  IF w # 0 /\ ctrlConn[w] = "open"
  THEN Append(out, [m EXCEPT !.ws = w])
  ELSE out

RECURSIVE SendAll(_, _, _)
SendAll(out, w, ms) ==
  IF ms = <<>> THEN out ELSE SendAll(Send(out, w, Head(ms)), w, Tail(ms))

\* useCallSession(): useState("idle") and the refs as first rendered.  The
\* two sockets are "null" (no WebSocket), "connecting", "open" or "closed";
\* processorRef tells whether an audio processor is installed; overdue tells
\* whether more than SIL_MS had passed since lastVoiceTsRef at the last
\* audio callback; stage is the await startCall is suspended at, and opened
\* the sockets whose open promise has resolved; transcriptHistory and
\* turnBaseline are the refs of these names and asr the text displayed.
ClientInit ==
  [status |-> "idle", awaitingResponse |-> FALSE, hasAudioForTurn |-> FALSE,
   isEnding |-> FALSE, controlRef |-> "null", audioRef |-> "null",
   processorRef |-> FALSE, overdue |-> FALSE, stage |-> "none",
   opened |-> {}, transcriptHistory |-> <<>>, turnBaseline |-> <<>>,
   asr |-> <<>>]

\* sent: the handler called audioRef.current.send(bytes); cancelled: it
\* called cancelSpeech()
Effects(sent, cancelled) == [sent |-> sent, cancelled |-> cancelled]
NoEffects == Effects(FALSE, FALSE)

\* ------------------------------------------------------------------- Init
\* newSessionState() for the fields of the session; no connection yet
Init ==
  /\ ctrlConn = [w \in CtrlIds |-> "none"]
  /\ audioConn = [a \in AudioIds |-> "none"]
  /\ clients = {}
  /\ controlWS = 0
  /\ audioWS = 0
  /\ cur = <<>>
  /\ results = <<>>
  /\ jobs = <<>>
  /\ segIdx = 0
  /\ totalBytes = 0
  /\ ended = FALSE
  /\ sessionId = 0
  /\ transcriptionGen = 0
  /\ tasks = <<>>
  /\ barriers = <<>>
  /\ ready = <<>>
  /\ creating = <<>>
  /\ relays = <<>>
  /\ ctrlOut = <<>>
  /\ rxCount = 0
  /\ ignored = 0
  /\ textBytes = {}
  /\ client = ClientInit
  /\ clientLog = <<>>
  /\ effects = NoEffects
  /\ queueRef = <<>>
  /\ activeUtteranceRef = 0
  /\ synth = [queue |-> <<>>, started |-> FALSE, lingering |-> {}]
  /\ callbacks = {}
  /\ spoken = <<>>
  /\ cancelledTexts = {}
  /\ calls = 0

\* no promise continuation is queued: the next task may run
Idle == ready = <<>>

\* --------------------------------------------------------- connections
\* wssControl.on("connection"): the session is created on first attach
CtrlConnect(w) ==
  /\ Idle
  /\ ctrlConn[w] = "none"
  /\ \A v \in CtrlIds : v < w => ctrlConn[v] # "none"
  /\ ctrlConn' = [ctrlConn EXCEPT ![w] = "open"]
  /\ clients' = clients \cup {CID}
  /\ controlWS' = w
  /\ UNCHANGED <<protocolVars, clientVars, speechVars>>
  /\ UNCHANGED <<audioConn, audioWS, bufVars, sessionId, tasks, barriers,
                 ready, creating, relays, ctrlOut, rxCount>>

\* control ws.on("close")
CtrlClose(w) ==
  /\ Idle
  /\ ctrlConn[w] = "open"
  /\ ctrlConn' = [ctrlConn EXCEPT ![w] = "closed"]
  /\ controlWS' = 0
  /\ UNCHANGED <<protocolVars, clientVars, speechVars>>
  /\ UNCHANGED <<audioConn, clients, audioWS, bufVars, sessionId, tasks,
                 barriers, ready, creating, relays, ctrlOut, rxCount>>

\* wssAudio.on("connection")
AudioConnect(a) ==
  /\ Idle
  /\ audioConn[a] = "none"
  /\ \A v \in AudioIds : v < a => audioConn[v] # "none"
  /\ audioConn' = [audioConn EXCEPT ![a] = "open"]
  /\ clients' = clients \cup {CID}
  /\ audioWS' = a
  /\ UNCHANGED <<protocolVars, clientVars, speechVars>>
  /\ UNCHANGED <<ctrlConn, controlWS, bufVars, sessionId, tasks, barriers,
                 ready, creating, relays, ctrlOut, rxCount>>

\* audio ws.on("close")
AudioClose(a) ==
  /\ Idle
  /\ audioConn[a] = "open"
  /\ audioConn' = [audioConn EXCEPT ![a] = "closed"]
  /\ audioWS' = 0
  /\ UNCHANGED <<protocolVars, clientVars, speechVars>>
  /\ UNCHANGED <<ctrlConn, clients, controlWS, bufVars, sessionId, tasks,
                 barriers, ready, creating, relays, ctrlOut, rxCount>>


\* the elements of a set of numbers in ascending order
RECURSIVE Ascending(_)
Ascending(S) ==
  IF S = {} THEN <<>>
  ELSE LET m == CHOOSE x \in S : \A y \in S : x <= y
       IN  <<m>> \o Ascending(S \ {m})

Range(s) == {s[i] : i \in 1..Len(s)}

\* ------------------------------------------------------------- jobs
\* One spawnWhisperOnce(wav).then(...).catch(...) promise: the generation and
\* idx its callbacks close over, the segment it transcribes, and how the
\* whisper process ended.  text is the normalised output of the process as
\* the .then callback computed it (a stale callback computes none); stale
\* records that the callback found another generation.
NewTask(gen, idx, kind, bytes) ==
  [gen |-> gen, idx |-> idx, kind |-> kind, bytes |-> bytes,
   status |-> "pending", text |-> <<>>, stale |-> FALSE]

\* a barrier that resolves as soon as one of its promises has settled
SettledAny(ts, S) == S = {} \/ \E t \in S : ts[t].status # "pending"

\* Promise.allSettled(st.jobs): every promise in S has settled
Settled(ts, S) == \A t \in S : ts[t].status # "pending"

\* Promise.allSettled over the promises in S resolves once each has settled:
\* the waiting barriers that ts completes, in the order they were created
NowReady(ts) ==
  Ascending({b \in 1..Len(barriers) :
               /\ barriers[b].state = "waiting"
               /\ Settled(ts, barriers[b].jobs)})

MarkReady(bs, rdy) ==
  [b \in 1..Len(bs) |->
     IF b \in Range(rdy) THEN [bs[b] EXCEPT !.state = "ready"] ELSE bs[b]]

\* a reset that leaves st.transcriptionGen where it was
ResetKeepingGeneration ==
  /\ cur' = <<>>
  /\ results' = <<>>
  /\ jobs' = <<>>
  /\ segIdx' = 0
  /\ totalBytes' = 0
  /\ ended' = FALSE
  /\ transcriptionGen' = transcriptionGen

\* a reset that leaves st.segIdx where it was
ResetKeepingIndex ==
  /\ cur' = <<>>
  /\ results' = <<>>
  /\ jobs' = <<>>
  /\ segIdx' = segIdx
  /\ totalBytes' = 0
  /\ ended' = FALSE
  /\ transcriptionGen' = transcriptionGen + 1

\* resetTranscriptionBuffers(st): everything but st.sessionId
ResetBuffers ==
  /\ cur' = <<>>
  /\ results' = <<>>
  /\ jobs' = <<>>
  /\ segIdx' = 0
  /\ totalBytes' = 0
  /\ ended' = FALSE
  /\ transcriptionGen' = transcriptionGen + 1

\* ------------------------------------------------------------ `start`
\* control `message` with type "start", up to the await
CtrlStart(w) ==
  /\ Idle
  /\ ctrlConn[w] = "open"
  /\ Len(creating) < MaxStarts
  /\ ResetBuffers
  /\ sessionId' = 0
  /\ creating' = Append(creating, [ws |-> w, state |-> "pending"])
  /\ UNCHANGED <<protocolVars, clientVars, speechVars>>
  /\ UNCHANGED <<connVars, tasks, barriers, ready, relays, ctrlOut, rxCount>>

\* a `start` that acknowledges the new session and does not store its id
CreateSessionAckOnly(c) ==
  /\ Idle
  /\ creating[c].state = "pending"
  /\ ctrlOut' = Send(ctrlOut, creating[c].ws, AckMsg(c))
  /\ creating' = [creating EXCEPT ![c].state = "ok"]
  /\ UNCHANGED <<protocolVars, clientVars, speechVars>>
  /\ UNCHANGED <<connVars, bufVars, sessionId, tasks, barriers, ready, relays,
                 rxCount>>

\* createFastapiSession() resolved: the rest of the `start` handler.  The
\* Answer Service gives call c the session id c.
CreateSessionOk(c) ==
  /\ Idle
  /\ creating[c].state = "pending"
  /\ sessionId' = c
  /\ ctrlOut' = Send(ctrlOut, creating[c].ws, AckMsg(c))
  /\ creating' = [creating EXCEPT ![c].state = "ok"]
  /\ UNCHANGED <<protocolVars, clientVars, speechVars>>
  /\ UNCHANGED <<connVars, bufVars, tasks, barriers, ready, relays, rxCount>>

\* createFastapiSession() threw: the catch of the `start` handler
CreateSessionFail(c) ==
  /\ Idle
  /\ creating[c].state = "pending"
  /\ ctrlOut' = Send(ctrlOut, creating[c].ws, ErrorMsg)
  /\ creating' = [creating EXCEPT ![c].state = "failed"]
  /\ UNCHANGED <<protocolVars, clientVars, speechVars>>
  /\ UNCHANGED <<connVars, bufVars, sessionId, tasks, barriers, ready, relays,
                 rxCount>>

\* -------------------------------------------------------------- audio
\* a loop that emits the whole buffer as one segment once it reaches the size
SliceWholeBuffer(buf, idx, ts, js) ==
  IF Len(buf) >= SEG_BYTES
  THEN [cur |-> <<>>, segIdx |-> idx + 1,
        tasks |-> Append(ts, NewTask(transcriptionGen, idx, "full", buf)),
        jobs |-> Append(js, Len(ts) + 1)]
  ELSE [cur |-> buf, segIdx |-> idx, tasks |-> ts, jobs |-> js]

\* while (st.cur.length >= SEG_BYTES) { ... }: the buffer, the index, the
\* jobs spawned and st.jobs after the loop
RECURSIVE SliceSegments(_, _, _, _)
SliceSegments(buf, idx, ts, js) ==
  IF Len(buf) >= SEG_BYTES
  THEN SliceSegments(
         SubSeq(buf, SEG_BYTES + 1, Len(buf)),
         idx + 1,
         Append(ts, NewTask(transcriptionGen, idx, "full",
                            SubSeq(buf, 1, SEG_BYTES))),
         Append(js, Len(ts) + 1))
  ELSE [cur |-> buf, segIdx |-> idx, tasks |-> ts, jobs |-> js]

\* audio `message`: the handler runs on a message of n bytes that arrived on
\* audio connection a, in a binary or in a text frame
Ingest(a, n) ==
  /\ Idle
  /\ audioConn[a] = "open"
  /\ LET bytes == [i \in 1..n |-> rxCount + i]
         after == SliceSegments(cur \o bytes, segIdx, tasks, jobs)
     IN  /\ cur' = after.cur
         /\ segIdx' = after.segIdx
         /\ tasks' = after.tasks
         /\ jobs' = after.jobs
  /\ totalBytes' = totalBytes + n
  /\ rxCount' = rxCount + n
  /\ UNCHANGED <<ignored, clientVars, speechVars>>
  /\ UNCHANGED <<connVars, results, ended, sessionId, transcriptionGen,
                 barriers, ready, creating, relays, ctrlOut>>

\* a binary frame of n bytes arrives on audio connection a
AudioFrame(a, n) ==
  /\ rxCount + n <= MaxBytes
  /\ Ingest(a, n)
  /\ UNCHANGED textBytes

\* a text frame of n bytes arrives on audio connection a: ws hands the
\* listener a Buffer for a text frame as for a binary one
AudioTextFrame(a, n) ==
  /\ rxCount + n <= MaxBytes
  /\ Ingest(a, n)
  /\ textBytes' = textBytes \cup {rxCount + i : i \in 1..n}

\* --------------------------------------------------------- completions
\* a completion that never compares generations
StaleIgnoringGeneration(t) == FALSE

\* `if (st.transcriptionGen !== generation) return;`
Stale(t) == tasks[t].gen # transcriptionGen

\* The .then callback of a job: the whisper process of task t closed with
\* exit code 0 and printed raw.
JobComplete(t, raw) ==
  /\ Idle
  /\ tasks[t].status = "pending"
  /\ LET cleaned == normalizeWhisperText(raw)
         ts == [tasks EXCEPT ![t].status = "ok",
                             ![t].text = IF Stale(t) THEN <<>> ELSE cleaned,
                             ![t].stale = Stale(t)]
         pushed == Append(results, [idx |-> tasks[t].idx, text |-> cleaned,
                                    gen |-> tasks[t].gen])
         aggregate == PartialAggregate(pushed)
         rdy == NowReady(ts)
     IN  /\ tasks' = ts
         /\ IF Stale(t) \/ cleaned = <<>>
            THEN UNCHANGED <<results, ctrlOut>>
            ELSE /\ results' = pushed
                 /\ IF /\ tasks[t].kind = "full"
                       /\ countWords(aggregate) >= MIN_TRANSCRIPT_WORDS
                    THEN ctrlOut' = Send(ctrlOut, controlWS,
                                         PartialMsg(tasks[t].idx, aggregate))
                    ELSE UNCHANGED ctrlOut
         /\ barriers' = MarkReady(barriers, rdy)
         /\ ready' = ready \o rdy
  /\ UNCHANGED <<protocolVars, clientVars, speechVars>>
  /\ UNCHANGED <<connVars, cur, jobs, segIdx, totalBytes, ended, sessionId,
                 transcriptionGen, creating, relays, rxCount>>

\* a failure that rejects the job's promise under a barrier that runs its
\* callback only when every promise fulfils: the barrier never completes
JobFailAborts(t) ==
  /\ Idle
  /\ tasks[t].status = "pending"
  /\ tasks' = [tasks EXCEPT ![t].status = "failed", ![t].stale = Stale(t)]
  /\ UNCHANGED <<protocolVars, clientVars, speechVars>>
  /\ UNCHANGED <<connVars, bufVars, sessionId, barriers, ready, creating,
                 relays, ctrlOut, rxCount>>

\* The .catch callback of a job: the whisper process of task t could not be
\* spawned or exited with a non-zero code.  The callback logs and returns, so
\* the job's promise is fulfilled.
JobFail(t) ==
  /\ Idle
  /\ tasks[t].status = "pending"
  /\ LET ts == [tasks EXCEPT ![t].status = "failed", ![t].stale = Stale(t)]
         rdy == NowReady(ts)
     IN  /\ tasks' = ts
         /\ barriers' = MarkReady(barriers, rdy)
         /\ ready' = ready \o rdy
  /\ UNCHANGED <<protocolVars, clientVars, speechVars>>
  /\ UNCHANGED <<connVars, bufVars, sessionId, creating, relays, ctrlOut,
                 rxCount>>


\* --------------------------------------------------------------- `end`
\* an `end` that never flushes the buffer
NeverFlushes(buf) == FALSE

\* `if (st.cur.length > 0)`: the buffer holds a remainder to flush
HasRemainder(buf) == Len(buf) > 0

\* control `message` with type "end": flush the buffer as a trailing segment,
\* then Promise.allSettled(st.jobs).then(...).  A barrier records the socket
\* and the promises it waits for; gen and ntasks (the generation and the jobs
\* spawned when `end` was handled) and, once fired, fireGen, settled, results,
\* transcript, wordTotal and relay (what its callback found and did) are kept
\* for the properties.
CtrlEnd(w) ==
  /\ Idle
  /\ ctrlConn[w] = "open"
  /\ Len(barriers) < MaxEnds
  /\ ended' = TRUE
  /\ LET flush == HasRemainder(cur)
         ts == IF flush
               THEN Append(tasks, NewTask(transcriptionGen, segIdx,
                                          "trailing", cur))
               ELSE tasks
         js == IF flush THEN Append(jobs, Len(tasks) + 1) ELSE jobs
         now == Settled(ts, Range(js))
         b == Len(barriers) + 1
     IN  /\ tasks' = ts
         /\ jobs' = js
         /\ segIdx' = IF flush THEN segIdx + 1 ELSE segIdx
         /\ cur' = <<>>
         /\ barriers' = Append(barriers,
              [ws |-> w, jobs |-> Range(js), gen |-> transcriptionGen,
               state |-> IF now THEN "ready" ELSE "waiting",
               ntasks |-> Len(ts), fireGen |-> -1, settled |-> {},
               results |-> <<>>, transcript |-> <<>>, wordTotal |-> -1,
               relay |-> 0])
         /\ ready' = IF now THEN Append(ready, b) ELSE ready
  /\ UNCHANGED <<protocolVars, clientVars, speechVars>>
  /\ UNCHANGED <<connVars, results, totalBytes, sessionId, transcriptionGen,
                 creating, relays, ctrlOut, rxCount>>

\* ------------------------------------------------------ control dispatch
\* what a client may send on the control channel
ControlInputs ==
  {"{\"type\":\"start\"}", "{\"type\":\"end\"}", "{\"type\":\"END\"}",
   "{\"type\":\"ping\"}", "{\"type\":\"\"}", "{}", "null", "not json"}

\* `msg = null; try { msg = JSON.parse(data.toString()); } catch {}`: msg is
\* null when the parse throws; type is NULL when msg has no such property
ParseControl(data) ==
  CASE data = "{\"type\":\"start\"}" -> [null |-> FALSE, type |-> "start"]
    [] data = "{\"type\":\"end\"}" -> [null |-> FALSE, type |-> "end"]
    [] data = "{\"type\":\"END\"}" -> [null |-> FALSE, type |-> "END"]
    [] data = "{\"type\":\"ping\"}" -> [null |-> FALSE, type |-> "ping"]
    [] data = "{\"type\":\"\"}" -> [null |-> FALSE, type |-> ""]
    [] data = "{}" -> [null |-> FALSE, type |-> NULL]
    [] OTHER -> [null |-> TRUE, type |-> NULL]

\* a dispatch that takes every message with a type other than start for end
DispatchAnyTypeAsEnd(data) ==
  LET msg == ParseControl(data)
  IN  IF msg.null \/ msg.type \in {NULL, ""} THEN "return"
      ELSE IF msg.type = "start" THEN "start"
      ELSE "end"

\* the branch of the control `message` handler that data takes:
\* `if (!msg || !msg.type) return;`, `if (msg.type === "start")`,
\* `if (msg.type === "end")`, or the end of the handler
Dispatch(data) ==
  LET msg == ParseControl(data)
  IN  IF msg.null \/ msg.type \in {NULL, ""} THEN "return"
      ELSE IF msg.type = "start" THEN "start"
      ELSE IF msg.type = "end" THEN "end"
      ELSE "return"

\* control `message`: data arrives on control connection w
ControlMessage(w, data) ==
  IF Dispatch(data) = "start" THEN CtrlStart(w)
  ELSE IF Dispatch(data) = "end" THEN CtrlEnd(w)
  ELSE /\ Idle
       /\ ctrlConn[w] = "open"
       /\ ignored < MaxIgnored
       /\ ignored' = ignored + 1
       /\ UNCHANGED <<textBytes, clientVars, speechVars>>
       /\ UNCHANGED <<connVars, bufVars, sessionId, tasks, barriers, ready,
                      creating, relays, ctrlOut, rxCount>>

\* a relay that queries the Answer Service with an empty question
RelayWithEmptyQuestion(sid, question, w) ==
  [sessionId |-> sid, question |-> <<>>, ws |-> w,
   state |-> "connecting", received |-> <<>>, starts |-> Len(creating)]

\* pipeLLM({sessionId, question, ws}): new EventSource(url).  starts is the
\* number of `start` commands handled before it.
NewRelay(sid, question, w) ==
  [sessionId |-> sid, question |-> question, ws |-> w,
   state |-> "connecting", received |-> <<>>, starts |-> Len(creating)]

\* a gate that lets a transcript one word short of the minimum through
BelowMinimumOffByOne(wordTotal) == wordTotal < MIN_TRANSCRIPT_WORDS - 1

\* `if (wordTotal < MIN_TRANSCRIPT_WORDS)`
BelowMinimum(wordTotal) == wordTotal < MIN_TRANSCRIPT_WORDS

\* The callback of Promise.allSettled(st.jobs) of the barrier at the head of
\* the microtask queue.
BarrierFire ==
  /\ ready # <<>>
  /\ LET b == Head(ready)
         w == barriers[b].ws
         transcript == FinalTranscript(results)
         wordTotal == countWords(transcript)
         low == BelowMinimum(wordTotal)
         call == ~low /\ sessionId # 0
     IN  /\ ctrlOut' =
              IF low
              THEN SendAll(ctrlOut, w,
                           << FinalMsg(<<>>, b),
                              LlmMsg("done", Insufficient(wordTotal), b, 0) >>)
              ELSE Send(ctrlOut, w, FinalMsg(transcript, b))
         /\ relays' = IF call
                      THEN Append(relays, NewRelay(sessionId, transcript, w))
                      ELSE relays
         /\ barriers' = [barriers EXCEPT
              ![b].state = "fired",
              ![b].fireGen = transcriptionGen,
              ![b].settled = {t \in 1..Len(tasks) : tasks[t].status # "pending"},
              ![b].results = results,
              ![b].transcript = transcript,
              ![b].wordTotal = wordTotal,
              ![b].relay = IF call THEN Len(relays) + 1 ELSE 0]
         /\ ready' = Tail(ready)
  /\ ResetBuffers
  /\ UNCHANGED <<protocolVars, clientVars, speechVars>>
  /\ UNCHANGED <<connVars, sessionId, tasks, creating, rxCount>>

\* ------------------------------------------------------------- relay
Live(r) == relays[r].state # "closed"

\* es.onopen
RelayOpen(r) ==
  /\ Idle
  /\ relays[r].state = "connecting"
  /\ relays' = [relays EXCEPT ![r].state = "open"]
  /\ ctrlOut' = Send(ctrlOut, relays[r].ws, LlmMsg("open", NoData, 0, r))
  /\ UNCHANGED <<protocolVars, clientVars, speechVars>>
  /\ UNCHANGED <<connVars, bufVars, sessionId, tasks, barriers, ready,
                 creating, rxCount>>

RECURSIVE SumReceived(_)
SumReceived(rs) ==
  IF rs = <<>> THEN 0 ELSE Len(Head(rs).received) + SumReceived(Tail(rs))

\* the named events delivered so far, over all relays
Delivered == SumReceived(relays)

\* a listener that leaves data = {} when JSON.parse throws
DecodeWithoutFallback(raw) ==
  IF raw # "" /\ JSONParse(raw).ok THEN Structured(JSONParse(raw).val)
  ELSE EmptyObject

\* the data of the llm message the listener of a named event sends
Decode(raw) ==
  IF raw = "" THEN EmptyObject
  ELSE IF JSONParse(raw).ok THEN Structured(JSONParse(raw).val)
  ELSE RawText(raw)

\* whether the listener of a named event closes the EventSource
ClosesOn(evt) == evt = "done"

\* The upstream stream delivers the named event evt with data raw: the
\* listener added by es.addEventListener(evt, ...) runs.  Whether the handler
\* in es.onerror runs as well for an event named "error" is decided by the
\* EventSource implementation (viaOnError); when it runs, it runs first, sends
\* a bare error message and closes the stream.  received lists the events the
\* listeners ran on, and whether the control socket was open then.
RelayEvent(r, evt, raw, viaOnError) ==
  /\ Idle
  /\ relays[r].state = "open"
  /\ Delivered < MaxUpstream
  /\ viaOnError => evt = "error"
  /\ LET w == relays[r].ws
         first == IF viaOnError
                  THEN Send(ctrlOut, w, LlmMsg("error", NoData, 0, r))
                  ELSE ctrlOut
     IN  ctrlOut' = Send(first, w, LlmMsg(evt, Decode(raw), 0, r))
  /\ relays' = [relays EXCEPT
       ![r].received = Append(@, [evt |-> evt, raw |-> raw, named |-> TRUE,
                                  sendable |-> ctrlConn[relays[r].ws] = "open"]),
       ![r].state = IF ClosesOn(evt) \/ viaOnError THEN "closed" ELSE @]
  /\ UNCHANGED <<protocolVars, clientVars, speechVars>>
  /\ UNCHANGED <<connVars, bufVars, sessionId, tasks, barriers, ready,
                 creating, rxCount>>

\* The connection to the Answer Service fails: es.onerror sends a bare error
\* message and closes the stream; the "error" listener runs on the same event,
\* which carries no data (received records it with named FALSE: it is no
\* event of the Answer Service).
RelayFailure(r) ==
  /\ Idle
  /\ Live(r)
  /\ ctrlOut' = SendAll(ctrlOut, relays[r].ws,
                        << LlmMsg("error", NoData, 0, r),
                           LlmMsg("error", EmptyObject, 0, r) >>)
  /\ relays' = [relays EXCEPT
       ![r].received = Append(@, [evt |-> "error", raw |-> "", named |-> FALSE,
                                  sendable |-> ctrlConn[relays[r].ws] = "open"]),
       ![r].state = "closed"]
  /\ UNCHANGED <<protocolVars, clientVars, speechVars>>
  /\ UNCHANGED <<connVars, bufVars, sessionId, tasks, barriers, ready,
                 creating, rxCount>>

\* ================================================================ client
\* useCallSession (web/src/hooks): one step is one handler of the hook run to
\* its end or to its next await.

\* transcripts the server may send: TEXT_LATER begins with TEXT_EARLIER
TEXT_EARLIER == <<"h","i"," ","y","o">>
TEXT_LATER == <<"h","i"," ","y","o"," ","o","k">>

\* the control messages the server may send, as far as the client's
\* onmessage tells them apart
ServerMsg(type, event, text) == [type |-> type, event |-> event, text |-> text]

ServerMsgs ==
  { ServerMsg("ack", NULL, <<>>),
    ServerMsg("error", NULL, <<>>),
    ServerMsg("partial_asr", NULL, TEXT_LATER),
    ServerMsg("final_asr", NULL, <<>>),
    ServerMsg("final_asr", NULL, TEXT_EARLIER),
    ServerMsg("llm", "opener", <<>>),
    ServerMsg("llm", "error", <<>>),
    ServerMsg("llm", "done", <<>>) }

Sockets == {"controlRef", "audioRef"}

\* how often entry e is in the client's log
Count(log, e) == Len(SelectSeq(log, LAMBDA x : x = e))

\* a cleanup that leaves the sockets as they are
CleanupKeepingSockets(c, closeSockets, resetFlags) ==
  LET c1 == [c EXCEPT !.processorRef = FALSE, !.hasAudioForTurn = FALSE]
  IN  IF resetFlags
      THEN [c1 EXCEPT !.awaitingResponse = FALSE, !.isEnding = FALSE,
                      !.transcriptHistory = <<>>, !.turnBaseline = <<>>]
      ELSE c1

\* cleanup(closeSockets, resetFlags)
cleanup(c, closeSockets, resetFlags) ==
  LET c1 == [c EXCEPT !.processorRef = FALSE, !.hasAudioForTurn = FALSE]
      c2 == IF resetFlags
            THEN [c1 EXCEPT !.awaitingResponse = FALSE, !.isEnding = FALSE,
                            !.transcriptHistory = <<>>, !.turnBaseline = <<>>]
            ELSE c1
  IN  IF closeSockets
      THEN [c2 EXCEPT !.controlRef = "null", !.audioRef = "null"]
      ELSE c2

\* `const canStart = status === "idle" || status === "error"`: the Start
\* button is enabled
canStart(c) == c.status \in {"idle", "error"}

\* startCall(), up to `await Promise.all([openControl(), openAudio()])`; the
\* buttons of App.jsx let it run in status idle and error
startCall ==
  /\ canStart(client)
  /\ Count(clientLog, "startCall") < MaxCalls
  /\ client' = [client EXCEPT
       !.status = "connecting",
       !.awaitingResponse = FALSE,
       !.hasAudioForTurn = FALSE,
       !.isEnding = FALSE,
       !.controlRef = "connecting",
       !.audioRef = "connecting",
       !.stage = "opening",
       !.opened = {},
       !.asr = <<>>,
       !.transcriptHistory = <<>>,
       !.turnBaseline = <<>>]
  /\ clientLog' = Append(clientLog, "startCall")
  /\ effects' = NoEffects
  /\ UNCHANGED <<serverVars, speechVars>>

\* ws.onopen of socket k resolves its promise; when both have resolved,
\* startCall goes on: ctrl.send({type: "start"}), then `await startMic()`,
\* which awaits getUserMedia
SocketOpen(k) ==
  /\ client[k] = "connecting"
  /\ LET both == client.stage = "opening" /\ client.opened \cup {k} = Sockets
         c1 == [client EXCEPT ![k] = "open", !.opened = @ \cup {k}]
     IN  /\ client' = IF both THEN [c1 EXCEPT !.stage = "mic"] ELSE c1
         /\ clientLog' = IF both /\ c1.controlRef = "open"
                         THEN Append(clientLog, "start")
                         ELSE clientLog
  /\ effects' = NoEffects
  /\ UNCHANGED <<serverVars, speechVars>>

\* ws.onerror of socket k before it opened rejects its promise: the catch of
\* startCall sets status error and calls cleanup()
SocketError(k) ==
  /\ client[k] = "connecting"
  /\ client.stage = "opening"
  /\ client' = cleanup([client EXCEPT !.status = "error", !.stage = "none"],
                       TRUE, TRUE)
  /\ effects' = Effects(FALSE, TRUE)
  /\ UNCHANGED clientLog
  /\ UNCHANGED <<serverVars, speechVars>>

\* the connection of socket k is lost: ws.onclose only logs
SocketDrop(k) ==
  /\ client[k] = "open"
  /\ client' = [client EXCEPT ![k] = "closed"]
  /\ effects' = NoEffects
  /\ UNCHANGED clientLog
  /\ UNCHANGED <<serverVars, speechVars>>

\* getUserMedia resolved: the rest of startMic, then setStatus("in_call")
MicReady ==
  /\ client.stage = "mic"
  /\ client' = [client EXCEPT
       !.hasAudioForTurn = FALSE,
       !.overdue = FALSE,
       !.processorRef = TRUE,
       !.status = "in_call",
       !.stage = "none"]
  /\ effects' = NoEffects
  /\ UNCHANGED clientLog
  /\ UNCHANGED <<serverVars, speechVars>>

\* getUserMedia rejected: the catch of startCall
MicFail ==
  /\ client.stage = "mic"
  /\ client' = cleanup([client EXCEPT !.status = "error", !.stage = "none"],
                       TRUE, TRUE)
  /\ effects' = Effects(FALSE, TRUE)
  /\ UNCHANGED clientLog
  /\ UNCHANGED <<serverVars, speechVars>>

\* guards of a finalize that does not look at the control socket
FinalizesOnAnySocket(c) ==
  /\ ~(c.awaitingResponse \/ c.isEnding)
  /\ c.hasAudioForTurn

\* the guards of finalizeTurn all pass
Finalizes(c) ==
  /\ ~(c.awaitingResponse \/ c.isEnding)
  /\ c.hasAudioForTurn
  /\ c.controlRef = "open"

\* a finalize that sets the status and leaves the turn flags as they are
FinalizeWithoutFlags(c) ==
  IF Finalizes(c) THEN [c EXCEPT !.status = "processing"] ELSE c

\* finalizeTurn("silence"): the refs and the status after it; it sends
\* {type: "end"} exactly when Finalizes
finalizeTurn(c) ==
  IF Finalizes(c)
  THEN [c EXCEPT !.awaitingResponse = TRUE,
                 !.hasAudioForTurn = FALSE,
                 !.overdue = FALSE,
                 !.turnBaseline = c.transcriptHistory,
                 !.status = "processing"]
  ELSE c

\* a callback that never returns early
NeverGuarded(c) == FALSE

\* `if (awaitingResponseRef.current || isEndingRef.current) return;`
Guarded(c) == c.awaitingResponse \/ c.isEnding

\* a callback that forwards every frame while the audio socket is open
ForwardsEveryFrame(c, silent) == c.audioRef = "open"

\* the frame is sent: `if (audioRef.current?.readyState === WebSocket.OPEN)`
\* and `if (!silent || hasAudioForTurnRef.current)`, with the flag as the
\* voice test of this frame left it
Forwards(c, silent) ==
  c.audioRef = "open" /\ (~silent \/ c.hasAudioForTurn)

\* proc.onaudioprocess with a frame that isSilent() finds silent or not;
\* late tells whether performance.now() - lastVoiceTsRef.current > SIL_MS
\* when the callback runs (time never runs backwards: once over, it stays
\* over until lastVoiceTsRef is set again)
onaudioprocess(silent, late) ==
  /\ client.processorRef
  /\ (~silent /\ ~Guarded(client)) => Count(clientLog, "voice") < MaxVoiced
  /\ client.overdue => late
  /\ LET guarded == Guarded(client)
         voiced == ~guarded /\ ~silent
         first == voiced /\ ~client.hasAudioForTurn
         c1 == IF voiced
               THEN [client EXCEPT !.hasAudioForTurn = TRUE,
                                   !.overdue = FALSE,
                                   !.asr = IF first THEN <<>> ELSE @]
               ELSE [client EXCEPT !.overdue = late]
         sent == ~guarded /\ Forwards(c1, silent)
         fire == ~guarded /\ c1.hasAudioForTurn /\ c1.overdue
         log1 == IF voiced THEN Append(clientLog, "voice") ELSE clientLog
     IN  /\ client' = IF fire THEN finalizeTurn(c1) ELSE c1
         /\ clientLog' = IF fire /\ Finalizes(c1)
                         THEN Append(log1, "end_silence")
                         ELSE log1
         /\ effects' = Effects(sent, first)
  /\ UNCHANGED <<serverVars, speechVars>>

\* endCall(); the buttons of App.jsx let it run in status in_call,
\* processing and ending
endCall ==
  /\ client.status \in {"in_call", "processing", "ending"}
  /\ client.status \notin {"idle", "connecting"}
  /\ Count(clientLog, "end_call") + Count(clientLog, "end_call_unsent")
       < MaxCalls
  /\ client' = [cleanup([client EXCEPT !.isEnding = TRUE,
                                       !.awaitingResponse = TRUE,
                                       !.status = "ending"],
                        FALSE, FALSE)
                  EXCEPT !.transcriptHistory = <<>>, !.turnBaseline = <<>>]
  /\ effects' = Effects(FALSE, TRUE)
  /\ clientLog' = Append(clientLog,
                         IF client.controlRef = "open"
                         THEN "end_call" ELSE "end_call_unsent")
  /\ UNCHANGED <<serverVars, speechVars>>

\* String.prototype.startsWith and String.prototype.slice(n)
StartsWith(text, prefix) ==
  Len(prefix) <= Len(text) /\ SubSeq(text, 1, Len(prefix)) = prefix

SliceFrom(text, n) == SubSeq(text, n + 1, Len(text))

\* the part of text the client displays, given the baseline: the text after
\* the baseline when it begins with it, or with the trimmed baseline
Delta(text, baseline) ==
  IF baseline = <<>> THEN text
  ELSE IF StartsWith(text, baseline) THEN SliceFrom(text, Len(baseline))
  ELSE IF Trim(baseline) # <<>> /\ StartsWith(text, Trim(baseline))
       THEN SliceFrom(text, Len(Trim(baseline)))
  ELSE text

\* an answer end that sets the status and leaves awaitingResponse set
AnswerEndedStillAwaiting(c, rest) ==
  LET c1 == [c EXCEPT !.hasAudioForTurn = FALSE,
                      !.turnBaseline = c.transcriptHistory]
  IN  IF c.isEnding
      THEN [cleanup(c1, TRUE, TRUE) EXCEPT
              !.status = rest,
              !.asr = IF rest = "idle" THEN <<>> ELSE @]
      ELSE [c1 EXCEPT !.status = "in_call", !.asr = <<>>]

\* the llm error and llm done branches of onmessage; rest is the status of a
\* client whose call was being ended
AnswerEnded(c, rest) ==
  LET c1 == [c EXCEPT !.awaitingResponse = FALSE,
                      !.hasAudioForTurn = FALSE,
                      !.turnBaseline = c.transcriptHistory]
  IN  IF c.isEnding
      THEN [cleanup(c1, TRUE, TRUE) EXCEPT
              !.status = rest,
              !.asr = IF rest = "idle" THEN <<>> ELSE @]
      ELSE [c1 EXCEPT !.status = "in_call", !.asr = <<>>]

\* the final_asr of a call that is being ended came with no text
EmptyFinalWhileEnding(c, m) ==
  /\ m.type = "final_asr"
  /\ c.isEnding /\ c.awaitingResponse
  /\ Trim(m.text) = <<>>

\* ws.onmessage of the control socket: the refs and the status after m
onmessage(c, m) ==
  IF m.type = "partial_asr"
  THEN IF Guarded(c) THEN c
       ELSE [c EXCEPT !.asr = Trim(Delta(m.text, c.transcriptHistory))]
  ELSE IF m.type = "final_asr"
  THEN LET c1 == [c EXCEPT !.transcriptHistory = m.text,
                           !.asr = Trim(Delta(m.text, c.turnBaseline))]
       IN  IF EmptyFinalWhileEnding(c, m)
           THEN [cleanup(c1, TRUE, TRUE) EXCEPT !.status = "idle",
                                                !.asr = <<>>]
           ELSE c1
  ELSE IF m.type = "llm" /\ m.event = "error" THEN AnswerEnded(c, "error")
  ELSE IF m.type = "llm" /\ m.event = "done" THEN AnswerEnded(c, "idle")
  ELSE c

\* whether onmessage calls cleanup(true), which cancels the speech output
MessageCleansUp(c, m) ==
  \/ EmptyFinalWhileEnding(c, m)
  \/ m.type = "llm" /\ m.event \in {"error", "done"} /\ c.isEnding

\* what the log keeps of a message handled
Logged(m) ==
  IF m.type = "error" THEN <<"create_error">>
  ELSE IF m.type = "llm" /\ m.event = "error" THEN <<"llm_error">>
  ELSE IF m.type = "llm" /\ m.event = "done" THEN <<"llm_done">>
  ELSE <<>>

\* the control messages in the log
MessagesLogged ==
  Count(clientLog, "create_error") + Count(clientLog, "llm_error")
    + Count(clientLog, "llm_done")

\* The server sends m on the control channel and the socket, being open,
\* delivers it to onmessage.
Receive(m) ==
  /\ client.controlRef = "open"
  /\ Logged(m) # <<>> => MessagesLogged < MaxServed
  /\ client' = onmessage(client, m)
  /\ clientLog' = clientLog \o Logged(m)
  /\ effects' = Effects(FALSE, MessageCleansUp(client, m))
  /\ UNCHANGED <<serverVars, speechVars>>

\* ------------------------------------------------------------------ Next
\* The session with a silent Answer Service: every handler of the two
\* channels, the session creations and the whisper jobs with every engine
\* output; relays are opened and no upstream event arrives.
Next ==
  \/ \E w \in CtrlIds : CtrlConnect(w) \/ CtrlClose(w)
  \/ \E a \in AudioIds : AudioConnect(a) \/ AudioClose(a)
  \/ \E w \in CtrlIds : CtrlStart(w) \/ CtrlEnd(w)
  \/ \E c \in 1..Len(creating) : CreateSessionOk(c) \/ CreateSessionFail(c)
  \/ \E a \in AudioIds, n \in FrameSizes : AudioFrame(a, n)
  \/ \E t \in 1..Len(tasks) :
       \/ \E raw \in EngineOutputs : JobComplete(t, raw)
       \/ JobFail(t)
  \/ BarrierFire

Spec == Init /\ [][Next]_vars

\* The session with the Answer Service answering: the relay's callbacks, with
\* one one-byte audio frame for each `end`, and segments that the engine
\* transcribes to five words of speech.
RelayNext ==
  \/ \E w \in CtrlIds : CtrlConnect(w) \/ CtrlClose(w)
  \/ \E a \in AudioIds : AudioConnect(a)
  \/ \E w \in CtrlIds : CtrlStart(w) \/ CtrlEnd(w)
  \/ \E c \in 1..Len(creating) : CreateSessionOk(c)
  \/ \E a \in AudioIds : rxCount < MaxEnds /\ AudioFrame(a, 1)
  \/ \E t \in 1..Len(tasks) : JobComplete(t, RAW_FIVE)
  \/ BarrierFire
  \/ \E r \in 1..Len(relays) :
       \/ RelayOpen(r)
       \/ \E evt \in NamedEvents, raw \in Payloads, viaOnError \in BOOLEAN :
            RelayEvent(r, evt, raw, viaOnError)
       \/ RelayFailure(r)

SpecRelay == Init /\ [][RelayNext]_vars

\* The example turn: after `start`, audio for up to three segments arrives,
\* the engine transcribes segment idx to ExampleOutputs[idx + 1], and `end`
\* arrives at any time after `start`.
ExampleNext ==
  \/ \E w \in CtrlIds : CtrlConnect(w)
  \/ \E a \in AudioIds : AudioConnect(a)
  \/ \E w \in CtrlIds : CtrlStart(w)
  \/ \E c \in 1..Len(creating) : CreateSessionOk(c)
  \/ \E a \in AudioIds, n \in FrameSizes :
       /\ creating # <<>>
       /\ rxCount + n <= ExampleBytes
       /\ Ingest(a, n)
       /\ UNCHANGED textBytes
  \/ \E t \in 1..Len(tasks) :
       /\ tasks[t].idx < Len(ExampleOutputs)
       /\ JobComplete(t, ExampleOutputs[tasks[t].idx + 1])
  \/ \E w \in CtrlIds : creating # <<>> /\ CtrlEnd(w)
  \/ BarrierFire

SpecExample == Init /\ [][ExampleNext]_vars

\* The session with clients that send anything on the control channel and
\* text frames as well as binary frames on the audio channel; the engine
\* transcribes every segment to three words.
ProtocolNext ==
  \/ \E w \in CtrlIds : CtrlConnect(w) \/ CtrlClose(w)
  \/ \E a \in AudioIds : AudioConnect(a) \/ AudioClose(a)
  \/ \E w \in CtrlIds, data \in ControlInputs : ControlMessage(w, data)
  \/ \E c \in 1..Len(creating) : CreateSessionOk(c)
  \/ \E a \in AudioIds, n \in FrameSizes :
       AudioFrame(a, n) \/ AudioTextFrame(a, n)
  \/ \E t \in 1..Len(tasks) : JobComplete(t, RAW_THREE)
  \/ BarrierFire

SpecProtocol == Init /\ [][ProtocolNext]_vars

\* ------------------------------------------------------ speech output
\* synth.speaking || synth.pending: the engine has an utterance in its queue,
\* or still reports a cancelled one as speaking
Busy(sy) == sy.queue # <<>> \/ sy.lingering # {}

\* a flush that looks at activeUtteranceRef only
FlushIgnoringEngine(q, active, sy) ==
  IF active # 0 \/ q = <<>>
  THEN [queueRef |-> q, activeUtteranceRef |-> active, synth |-> sy]
  ELSE [queueRef |-> Tail(q), activeUtteranceRef |-> Head(q),
        synth |-> [sy EXCEPT !.queue = Append(@, Head(q))]]

\* flushQueue(): the queue, the active utterance and the engine after it.
\* Nothing happens while an utterance is active or the engine is busy;
\* otherwise the first text of the queue becomes the active utterance and is
\* handed to synth.speak.
flushQueue(q, active, sy) ==
  IF active # 0 \/ Busy(sy) \/ q = <<>>
  THEN [queueRef |-> q, activeUtteranceRef |-> active, synth |-> sy]
  ELSE [queueRef |-> Tail(q), activeUtteranceRef |-> Head(q),
        synth |-> [sy EXCEPT !.queue = Append(@, Head(q))]]

\* speak({text}): push and flush
speak ==
  /\ calls < MaxSpeaks
  /\ calls' = calls + 1
  /\ LET after == flushQueue(Append(queueRef, calls + 1),
                             activeUtteranceRef, synth)
     IN  /\ queueRef' = after.queueRef
         /\ activeUtteranceRef' = after.activeUtteranceRef
         /\ synth' = after.synth
  /\ UNCHANGED <<callbacks, spoken, cancelledTexts>>
  /\ UNCHANGED <<serverVars, clientVars>>

\* the engine begins to speak the first utterance of its queue
EngineStart ==
  /\ synth.queue # <<>>
  /\ ~synth.started
  /\ synth' = [synth EXCEPT !.started = TRUE]
  /\ spoken' = Append(spoken, Head(synth.queue))
  /\ UNCHANGED <<queueRef, activeUtteranceRef, callbacks, cancelledTexts, calls>>
  /\ UNCHANGED <<serverVars, clientVars>>

\* the engine is done with the first utterance of its queue: it has spoken
\* it to the end, or failed on it (before or after it began); the end or
\* error event of the utterance is queued
EngineDone ==
  /\ synth.queue # <<>>
  /\ synth' = [synth EXCEPT !.queue = Tail(@), !.started = FALSE]
  /\ callbacks' = callbacks \cup {Head(synth.queue)}
  /\ UNCHANGED <<queueRef, activeUtteranceRef, spoken, cancelledTexts, calls>>
  /\ UNCHANGED <<serverVars, clientVars>>

\* handleDone of utterance u runs as utterance.onend or utterance.onerror,
\* outside cancel() (cancelingRef is false): it clears activeUtteranceRef,
\* whichever utterance that holds, and flushes
handleDone(u) ==
  /\ u \in callbacks
  /\ callbacks' = callbacks \ {u}
  /\ LET after == flushQueue(queueRef, 0,
                             [synth EXCEPT !.lingering = @ \ {u}])
     IN  /\ queueRef' = after.queueRef
         /\ activeUtteranceRef' = after.activeUtteranceRef
         /\ synth' = after.synth
  /\ UNCHANGED <<spoken, cancelledTexts, calls>>
  /\ UNCHANGED <<serverVars, clientVars>>

\* cancel(): the queue is emptied, synth.cancel() removes every utterance
\* from the engine, and activeUtteranceRef is cleared.  The engine fires the
\* error or end event of a removed utterance inside synth.cancel() (inside:
\* handleDone runs with cancelingRef set and does not flush) or later, and in
\* the second case may report the utterance as speaking until then (lingers).
cancel(inside, lingers) ==
  /\ queueRef # <<>> \/ synth.queue # <<>> \/ activeUtteranceRef # 0
  /\ inside => ~lingers
  /\ lingers => synth.started
  /\ LET removed == {synth.queue[i] : i \in 1..Len(synth.queue)}
         waiting == {queueRef[i] : i \in 1..Len(queueRef)}
     IN  /\ queueRef' = <<>>
         /\ activeUtteranceRef' = 0
         /\ synth' = [queue |-> <<>>, started |-> FALSE,
                      lingering |-> IF lingers
                                    THEN synth.lingering \cup removed
                                    ELSE synth.lingering]
         /\ callbacks' = IF inside THEN callbacks ELSE callbacks \cup removed
         /\ cancelledTexts' = cancelledTexts \cup waiting
                            \cup (IF synth.started THEN {} ELSE removed)
  /\ UNCHANGED <<spoken, calls>>
  /\ UNCHANGED <<serverVars, clientVars>>

\* The speech output with an engine that starts, finishes and fails
\* utterances when it likes.
SpeechNext ==
  \/ speak
  \/ EngineStart
  \/ EngineDone
  \/ \E u \in 1..MaxSpeaks : handleDone(u)
  \/ \E inside, lingers \in BOOLEAN : cancel(inside, lingers)

SpecSpeech == Init /\ [][SpeechNext]_vars

\* The client with a server that may send any control message at any time.
ClientNext ==
  \/ startCall
  \/ \E k \in Sockets : SocketOpen(k) \/ SocketError(k) \/ SocketDrop(k)
  \/ MicReady
  \/ MicFail
  \/ \E silent, late \in BOOLEAN : onaudioprocess(silent, late)
  \/ endCall
  \/ \E m \in ServerMsgs : Receive(m)

SpecClient == Init /\ [][ClientNext]_vars


\* ============================================================= properties
Fired == {b \in 1..Len(barriers) : barriers[b].state = "fired"}

\* the messages of ctrlOut that satisfy Test, in order
Sent(Test(_)) == SelectSeq(ctrlOut, Test)

\* The texts of a set of tasks in ascending order of idx (idx is unique
\* within a generation).
RECURSIVE TextsByIdx(_)
TextsByIdx(S) ==
  IF S = {} THEN <<>>
  ELSE LET t == CHOOSE x \in S : \A y \in S : tasks[x].idx <= tasks[y].idx
       IN  <<tasks[t].text>> \o TextsByIdx(S \ {t})

\* the segments of the turn that barrier b finalized whose jobs produced
\* non-empty normalised text
Spoken(b) ==
  {t \in barriers[b].settled :
     /\ tasks[t].gen = barriers[b].fireGen
     /\ tasks[t].status = "ok"
     /\ tasks[t].text # <<>>}

\* C1: the final transcript computed at a finalize barrier is the non-empty
\* normalised texts of the turn's segments joined by single spaces in
\* ascending idx order, whatever the order in which the jobs completed.
C1_TranscriptInIndexOrder ==
  \A b \in Fired : barriers[b].transcript = JoinSpace(TextsByIdx(Spoken(b)))

\* a barrier fired over two non-empty results that were stored in descending
\* idx order (the later segment completed first)
C1_Witness ==
  \E b \in Fired :
    /\ Len(barriers[b].results) = 2
    /\ barriers[b].results[1].idx > barriers[b].results[2].idx
    /\ barriers[b].wordTotal >= MIN_TRANSCRIPT_WORDS

\* C2: a completion (success or failure) tagged with a generation other than
\* the session's current one stores no result and sends no message, and no
\* result of another generation is ever held in st.results, from which every
\* partial and final transcript is built.
C2_StaleCompletionInert ==
  /\ [](\A i \in 1..Len(results) : results[i].gen = transcriptionGen)
  /\ [][\A t \in 1..Len(tasks) :
          (/\ tasks[t].status = "pending"
           /\ tasks'[t].status # "pending"
           /\ tasks[t].gen # transcriptionGen)
          => (results' = results /\ ctrlOut' = ctrlOut)]_vars

\* a job of an earlier generation completed successfully after the bump
C2_Witness ==
  \E t \in 1..Len(tasks) :
    /\ tasks[t].status = "ok"
    /\ tasks[t].stale
    /\ tasks[t].gen < transcriptionGen

IsFinal(m) == m.type = "final_asr"

\* C3: for one turn the server sends exactly one final_asr and starts at most
\* one relay: two `end` commands handled in the same generation do not both
\* run the finalize callback.
C3_OneFinalizePerTurn ==
  /\ \A i, j \in 1..Len(ctrlOut) :
       (/\ IsFinal(ctrlOut[i]) /\ IsFinal(ctrlOut[j])
        /\ barriers[ctrlOut[i].barrier].gen = barriers[ctrlOut[j].barrier].gen)
       => i = j
  /\ \A b1, b2 \in Fired :
       (/\ barriers[b1].relay # 0 /\ barriers[b2].relay # 0
        /\ barriers[b1].gen = barriers[b2].gen)
       => b1 = b2

\* C4: at most one upstream Answer Service stream is open for the session.
C4_AtMostOneStream ==
  Cardinality({r \in 1..Len(relays) : Live(r)}) <= 1

\* C5: final_asr is sent only by a barrier that has fired, and a barrier
\* fires only after every job spawned for the generation of its `end` up to
\* and including the trailing flush has settled.
C5_FinalAfterJobsSettled ==
  /\ \A i \in 1..Len(ctrlOut) :
       IsFinal(ctrlOut[i]) => ctrlOut[i].barrier \in Fired
  /\ \A b \in Fired :
       \A t \in 1..barriers[b].ntasks :
         tasks[t].gen = barriers[b].gen => t \in barriers[b].settled

\* a final_asr was sent by a barrier that waited for a full segment and for
\* the trailing flush
C5_Witness ==
  \E i \in 1..Len(ctrlOut) :
    /\ IsFinal(ctrlOut[i])
    /\ LET b == ctrlOut[i].barrier
       IN  /\ \E t \in barriers[b].jobs : tasks[t].kind = "trailing"
           /\ \E t \in barriers[b].jobs : tasks[t].kind = "full"

\* the messages barrier b sent
FromBarrier(b) == LET Test(m) == m.barrier = b IN Sent(Test)

\* C6: when the final transcript has fewer words than the minimum the server
\* sends final_asr with empty text, then llm done with reason
\* insufficient_words and the word count, and opens no stream.
C6_MinimumContentGate ==
  \A b \in Fired :
    countWords(barriers[b].transcript) < MIN_TRANSCRIPT_WORDS =>
      /\ barriers[b].relay = 0
      /\ LET ms == FromBarrier(b)
             expected ==
               << [FinalMsg(<<>>, b) EXCEPT !.ws = barriers[b].ws],
                  [LlmMsg("done",
                          Insufficient(countWords(barriers[b].transcript)),
                          b, 0) EXCEPT !.ws = barriers[b].ws] >>
         IN  /\ ms = <<>> \/ ms = expected
             /\ ctrlConn[barriers[b].ws] = "open" => ms = expected

\* a transcript of four words was gated while a session id was set
C6_Witness ==
  \E b \in Fired :
    /\ barriers[b].wordTotal = MIN_TRANSCRIPT_WORDS - 1
    /\ sessionId # 0
    /\ Len(FromBarrier(b)) = 2

\* the messages the event listeners of relay r sent (onopen and onerror send
\* messages with no data field)
Forwarded(r) ==
  LET Test(m) == m.relay = r /\ m.data.tag # "none" IN Sent(Test)

\* the events of relay r that arrived while its control socket was open
Arrived(r) ==
  LET Test(e) == e.sendable IN SelectSeq(relays[r].received, Test)

\* the payload as the claim words it: decoded if it decodes, raw otherwise
DataAsClaimed(raw) ==
  IF JSONParse(raw).ok THEN Structured(JSONParse(raw).val) ELSE RawText(raw)

\* the payload with the empty case: an empty payload is forwarded as {}
DataAsAmended(raw) ==
  CASE raw = "" -> EmptyObject
    [] raw # "" /\ JSONParse(raw).ok -> Structured(JSONParse(raw).val)
    [] OTHER -> RawText(raw)

ForwardedAs(r, Data(_)) ==
  /\ Len(Forwarded(r)) = Len(Arrived(r))
  /\ \A i \in 1..Len(Arrived(r)) :
       /\ Forwarded(r)[i].type = "llm"
       /\ Forwarded(r)[i].event = Arrived(r)[i].evt
       /\ Forwarded(r)[i].data = Data(Arrived(r)[i].raw)
       /\ Forwarded(r)[i].ws = relays[r].ws

\* C7 as stated: every event is forwarded, in arrival order, with the decoded
\* structure when decoding succeeds and the raw text otherwise.
C7_ForwardedDecodedOrRaw ==
  \A r \in 1..Len(relays) : ForwardedAs(r, DataAsClaimed)

\* C7 amended: every event is forwarded, in arrival order, with the decoded
\* structure when decoding succeeds, an empty structure when the payload is
\* empty, and the raw text otherwise; none is dropped.
C7_ForwardedInOrder ==
  \A r \in 1..Len(relays) : ForwardedAs(r, DataAsAmended)

\* a relay forwarded two events, the first with a payload that does not
\* decode, the second of another kind
C7_Witness ==
  \E r \in 1..Len(relays) :
    /\ Len(Forwarded(r)) = 2
    /\ relays[r].received[1].named /\ relays[r].received[2].named
    /\ Forwarded(r)[1].data.tag = "text"
    /\ Forwarded(r)[1].event # Forwarded(r)[2].event

\* C8: once a relay has received an upstream done or error event its stream
\* is closed (so that nothing more is forwarded).
C8_ClosedAfterDoneOrError ==
  \A r \in 1..Len(relays) :
    (\E i \in 1..Len(relays[r].received) :
       /\ relays[r].received[i].named
       /\ relays[r].received[i].evt \in {"done", "error"})
    => ~Live(r)

\* C9: no stream outlives its turn: a relay whose control socket has closed,
\* or after whose opening a `start` was handled, is closed.
C9_NoStreamOutlivesTurn ==
  \A r \in 1..Len(relays) :
    Live(r) => /\ ctrlConn[relays[r].ws] = "open"
               /\ Len(creating) = relays[r].starts

\* C10: a failed job never aborts the turn: a barrier is never left waiting
\* with all its jobs settled, and a barrier that waited for a failed job
\* still computes the transcript of the other segments in idx order, the
\* failed one contributing nothing.
C10_FailureDoesNotAbort ==
  /\ \A b \in 1..Len(barriers) :
       barriers[b].state = "waiting" =>
         \E t \in barriers[b].jobs : tasks[t].status = "pending"
  /\ \A b \in Fired :
       (\E t \in barriers[b].jobs : tasks[t].status = "failed") =>
         /\ barriers[b].jobs \subseteq barriers[b].settled
         /\ barriers[b].transcript =
              JoinSpace(TextsByIdx(
                {t \in barriers[b].settled :
                   /\ tasks[t].gen = barriers[b].fireGen
                   /\ tasks[t].status # "failed"
                   /\ tasks[t].text # <<>>}))

\* a barrier fired in its own generation after one of its jobs failed and
\* another produced text
C10_Witness ==
  \E b \in Fired :
    /\ barriers[b].gen = barriers[b].fireGen
    /\ \E t \in barriers[b].jobs : tasks[t].status = "failed"
    /\ barriers[b].transcript # <<>>

\* the tasks spawned in generation g, in the order they were spawned
TasksOf(ts, g) == SelectSeq(ts, LAMBDA t : t.gen = g)

\* the bytes of a sequence of tasks, one task after the other
RECURSIVE BytesOf(_)
BytesOf(ts) == IF ts = <<>> THEN <<>> ELSE Head(ts).bytes \o BytesOf(Tail(ts))

\* C11: after every audio ingest the buffer holds fewer than SEG_BYTES bytes;
\* every segment the audio handler emitted holds exactly SEG_BYTES bytes;
\* st.segIdx has advanced by one for each segment of the generation; and the
\* segments of the current generation followed by the buffer are the bytes
\* received, in the order received, up to the last one.
C11_BufferBelowSegmentSize ==
  /\ Len(cur) < SEG_BYTES
  /\ \A t \in 1..Len(tasks) :
       tasks[t].kind = "full" => Len(tasks[t].bytes) = SEG_BYTES
  /\ segIdx = Len(TasksOf(tasks, transcriptionGen))
  /\ LET all == BytesOf(TasksOf(tasks, transcriptionGen)) \o cur
     IN  \A i \in 1..Len(all) : all[i] = rxCount - Len(all) + i

\* one frame filled a segment and left a remainder in the buffer
C11_Witness ==
  /\ cur # <<>>
  /\ \E t \in 1..Len(tasks) :
       /\ tasks[t].kind = "full"
       /\ tasks[t].gen = transcriptionGen
       /\ cur[1] = tasks[t].bytes[SEG_BYTES] + 1

\* C12: a segment shorter than SEG_BYTES is emitted only by the `end`
\* handler; an `end` with a non-empty buffer spawns exactly one job, for a
\* segment that holds the buffer and carries st.segIdx and the current
\* generation, the job is among those the barrier waits for, and the buffer
\* is empty afterwards; an `end` with an empty buffer spawns no job.
C12_TrailingFlushOnlyOnEnd ==
  [][ /\ (\E t \in (Len(tasks) + 1)..Len(tasks') :
            Len(tasks'[t].bytes) < SEG_BYTES)
         => Len(barriers') = Len(barriers) + 1
      /\ Len(barriers') = Len(barriers) + 1
         => /\ cur' = <<>>
            /\ IF cur = <<>>
               THEN tasks' = tasks
               ELSE /\ Len(tasks') = Len(tasks) + 1
                    /\ tasks'[Len(tasks')].bytes = cur
                    /\ tasks'[Len(tasks')].idx = segIdx
                    /\ tasks'[Len(tasks')].gen = transcriptionGen
                    /\ tasks'[Len(tasks')].status = "pending"
                    /\ segIdx' = segIdx + 1
                    /\ Len(tasks') \in barriers'[Len(barriers')].jobs
    ]_vars

\* an `end` flushed a remainder shorter than a segment, after a full segment
C12_Witness ==
  \E b \in 1..Len(barriers) :
    /\ barriers[b].ntasks > 1
    /\ tasks[barriers[b].ntasks].kind = "trailing"
    /\ Len(tasks[barriers[b].ntasks].bytes) < SEG_BYTES
    /\ barriers[b].ntasks \in barriers[b].jobs

\* C13: when the callback of an `end`'s barrier is about to run, the audio
\* received since that `end` has been flushed and transcribed: the buffer is
\* empty and every job of the session has settled.
C13_LateAudioFlushedBeforeBarrier ==
  ready # <<>> =>
    /\ cur = <<>>
    /\ \A i \in 1..Len(jobs) : tasks[jobs[i]].status # "pending"

\* the idx of the tasks of a sequence, in order
Indices(ts) == [i \in 1..Len(ts) |-> ts[i].idx]

\* C14: the segments of one generation carry, in the order they were
\* emitted, the indices 0, 1, 2, ...; st.segIdx is the next one, and it is 0
\* again after every generation bump.
C14_IndicesIncreaseFromZero ==
  /\ \A g \in 0..transcriptionGen :
       Indices(TasksOf(tasks, g)) = [i \in 1..Len(TasksOf(tasks, g)) |-> i - 1]
  /\ segIdx = Len(TasksOf(tasks, transcriptionGen))

\* a generation had a full segment 0 and a trailing segment 1, and the
\* generation bump after it set the index back to 0
C14_Witness ==
  /\ segIdx = 0
  /\ \E t, u \in 1..Len(tasks) :
       /\ tasks[t].gen = tasks[u].gen
       /\ tasks[t].gen < transcriptionGen
       /\ tasks[t].idx = 0 /\ tasks[t].kind = "full"
       /\ tasks[u].idx = 1 /\ tasks[u].kind = "trailing"

\* the texts of the tasks S of ts in ascending order of idx
RECURSIVE TextsIn(_, _)
TextsIn(ts, S) ==
  IF S = {} THEN <<>>
  ELSE LET t == CHOOSE x \in S : \A y \in S : ts[x].idx <= ts[y].idx
       IN  <<ts[t].text>> \o TextsIn(ts, S \ {t})

\* the segments of generation g that completed with non-empty normalised text
Stored(ts, g) ==
  {t \in 1..Len(ts) :
     ts[t].gen = g /\ ts[t].status = "ok" /\ ts[t].text # <<>>}

IsPartial(m) == m.type = "partial_asr"

\* C15: a partial_asr is sent only by the completion of a full segment of the
\* current generation with non-empty normalised text, and only when the
\* non-empty texts stored so far, joined in ascending idx order, have at least
\* MIN_TRANSCRIPT_WORDS words; its text is exactly that aggregate; every
\* other completion sends nothing.
C15_PartialOnlyAboveMinimum ==
  [][ /\ \A t \in 1..Len(tasks) :
           (tasks[t].status = "pending" /\ tasks'[t].status # "pending") =>
             LET aggregate ==
                   JoinSpace(TextsIn(tasks', Stored(tasks', transcriptionGen)))
                 due == /\ tasks'[t].status = "ok"
                        /\ tasks[t].gen = transcriptionGen
                        /\ tasks[t].kind = "full"
                        /\ tasks'[t].text # <<>>
                        /\ countWords(aggregate) >= MIN_TRANSCRIPT_WORDS
                        /\ controlWS # 0
             IN  ctrlOut' =
                   IF due
                   THEN Append(ctrlOut,
                               [PartialMsg(tasks[t].idx, aggregate)
                                  EXCEPT !.ws = controlWS])
                   ELSE ctrlOut
      /\ Len(SelectSeq(ctrlOut', IsPartial)) > Len(SelectSeq(ctrlOut, IsPartial))
         => \E t \in 1..Len(tasks) :
              tasks[t].status = "pending" /\ tasks'[t].status = "ok"
    ]_vars

\* a partial_asr was sent for segment 0 after segment 1 had completed, and a
\* completion with text sent none
C15_Witness ==
  \E i \in 1..Len(ctrlOut), t \in 1..Len(tasks) :
    /\ IsPartial(ctrlOut[i])
    /\ ctrlOut[i].idx = 0
    /\ countWords(ctrlOut[i].text) >= MIN_TRANSCRIPT_WORDS
    /\ tasks[t].idx = 1 /\ tasks[t].status = "ok" /\ tasks[t].text # <<>>
    /\ Len(SelectSeq(ctrlOut, IsPartial)) = 1

\* outputs of the Transcription Engine that carry no speech: nothing, only
\* annotations, only punctuation, only a word of the non-speech vocabulary
NonSpeechSamples ==
  { <<>>, RAW_NOISE, RAW_SILENCE,
    <<"(","m","u","s","i","c",")">>,
    <<"{","x","}"," ","[","y","]">>,
    <<"?","!"," ",",">>,
    <<".",".",".">>,
    <<"I","n","a","u","d","i","b","l","e","!">>,
    <<"[","M","U","S","I","C">>,
    <<" ","N","o","i","s","e"," ">> }

\* C16: an engine output with nothing but annotations, punctuation or a
\* non-speech word normalises to the empty text, and the completion of a
\* segment with such an output stores no result and sends no message.
C16_NonSpeechIsEmpty ==
  [][ \A t \in 1..Len(tasks), raw \in NonSpeechSamples :
        JobComplete(t, raw) =>
          /\ normalizeWhisperText(raw) = <<>>
          /\ results' = results
          /\ ctrlOut' = ctrlOut
    ]_vars

\* a full segment of the current generation completed with empty normalised
\* text while a result with text was already stored
C16_Witness ==
  \E t \in 1..Len(tasks) :
    /\ tasks[t].status = "ok"
    /\ tasks[t].kind = "full"
    /\ tasks[t].gen = transcriptionGen
    /\ ~tasks[t].stale
    /\ tasks[t].text = <<>>
    /\ results # <<>>
    /\ \A i \in 1..Len(results) : results[i].idx # tasks[t].idx

C19_FinalBeforeAnswer ==
  /\ [](\A j \in 1..Len(ctrlOut) :
          ctrlOut[j].type = "llm" =>
            \E i \in 1..(j - 1), b \in Fired :
              /\ IsFinal(ctrlOut[i])
              /\ ctrlOut[i].barrier = b
              /\ \/ ctrlOut[j].barrier = b
                 \/ /\ ctrlOut[j].relay # 0
                    /\ ctrlOut[j].relay = barriers[b].relay
                    /\ ctrlOut[i].text = relays[barriers[b].relay].question)
  /\ [][\A b \in 1..Len(barriers) :
          (barriers[b].state # "fired" /\ barriers'[b].state = "fired") =>
            IF /\ barriers'[b].wordTotal >= MIN_TRANSCRIPT_WORDS
               /\ sessionId # 0
            THEN /\ Len(relays') = Len(relays) + 1
                 /\ relays'[Len(relays')].question = barriers'[b].transcript
                 /\ relays'[Len(relays')].sessionId = sessionId
                 /\ ctrlConn[barriers[b].ws] = "open"
                    => ctrlOut' = Append(ctrlOut,
                                         [FinalMsg(barriers'[b].transcript, b)
                                            EXCEPT !.ws = barriers[b].ws])
            ELSE relays' = relays]_vars

\* the relay of a turn forwarded an opener after the turn's final_asr
C19_Witness ==
  \E i, j \in 1..Len(ctrlOut) :
    /\ i < j
    /\ IsFinal(ctrlOut[i])
    /\ countWords(ctrlOut[i].text) >= MIN_TRANSCRIPT_WORDS
    /\ ctrlOut[j].type = "llm" /\ ctrlOut[j].event = "opener"
    /\ ctrlOut[j].relay = barriers[ctrlOut[i].barrier].relay

\* the positions of the client's log that hold one of the entries E
At(E) == {i \in 1..Len(clientLog) : clientLog[i] \in E}

\* C18: once the client has been told that session creation failed, its
\* status is error or idle until the user starts a call again.
C18_CreateFailureEndsCall ==
  \A i \in At({"create_error"}) :
    (\A k \in At({"startCall"}) : k < i)
      => client.status \in {"error", "idle"}

\* the silence-based `end`s of the log, each after voice detected in its turn
EndAfterVoice ==
  \A j \in At({"end_silence"}) :
    \E i \in At({"voice"}) :
      /\ i < j
      /\ \A k \in At({"end_silence", "end_call", "llm_done", "llm_error",
                      "startCall"}) : ~(i < k /\ k < j)

\* between two silence-based `end`s, one of the events E and then voice
EndsSeparatedBy(E) ==
  \A j, k \in At({"end_silence"}) :
    j < k => \E d \in At(E), v \in At({"voice"}) : j < d /\ d < v /\ v < k

\* a step that sends a silence-based `end` starts with voice captured and no
\* response awaited, and leaves a response awaited and no voice captured
EndStep ==
  (clientLog' # clientLog /\ clientLog'[Len(clientLog')] = "end_silence")
    => /\ client.hasAudioForTurn
       /\ ~client.awaitingResponse
       /\ client'.awaitingResponse
       /\ ~client'.hasAudioForTurn

\* C20 as stated: the silence finalize sends `end` only after a voiced frame
\* of the turn and with no response awaited, and sends no further
\* silence-based `end` until an llm done or error has been handled and voice
\* has been detected again.
C20_SilenceFinalizeOncePerTurn ==
  /\ [](EndAfterVoice /\ EndsSeparatedBy({"llm_done", "llm_error"}))
  /\ [][EndStep]_vars

\* C20, amended: ... until an llm done or error has been handled, or the call
\* has ended and a new call has been started, and voice has been detected
\* again.
C20_SilenceFinalizeOncePerTurnOrCall ==
  /\ [](EndAfterVoice
        /\ EndsSeparatedBy({"llm_done", "llm_error", "startCall"}))
  /\ [][EndStep]_vars

\* in one call, a silence finalize, the llm done of its turn, voice again and
\* a second silence finalize
C20_Witness ==
  /\ Count(clientLog, "startCall") = 1
  /\ \E j, k \in At({"end_silence"}), d \in At({"llm_done"}) :
       j < d /\ d < k
  /\ client.status = "processing"
  /\ client.awaitingResponse

\* C21: the client sends at most one `end` for a turn: between two `end`s of
\* the log, whether sent by the silence finalize or by endCall, the turn of
\* the first has been resolved (llm done or error) or a new call started.
C21_OneEndPerTurn ==
  \A j, k \in At({"end_silence", "end_call"}) :
    j < k =>
      \E d \in At({"llm_done", "llm_error", "startCall"}) : j < d /\ d < k

\* the turn flags of the client
TurnFlags(c) == <<c.awaitingResponse, c.hasAudioForTurn, c.isEnding>>

\* C22: while the client awaits a response, the audio callback run on a frame
\* with voice activity sends nothing on the audio channel, does not cancel
\* the speech output, and leaves the status and every turn flag as they were
\* (it also sends nothing on the control channel)
C22_VoiceWhileAwaitingHasNoEffect ==
  [][\A late \in BOOLEAN :
       (client.awaitingResponse /\ onaudioprocess(FALSE, late)) =>
         /\ effects' = NoEffects
         /\ client'.status = client.status
         /\ TurnFlags(client') = TurnFlags(client)
         /\ clientLog' = clientLog]_vars

\* a frame was captured, later than SIL_MS after the last voice, while the
\* answer of the finalized turn was awaited
C22_Witness ==
  /\ client.status = "processing"
  /\ client.awaitingResponse
  /\ client.processorRef
  /\ client.overdue
  /\ effects = NoEffects

\* the llm events that end an answer
AnswerEnds == {ServerMsg("llm", "done", <<>>), ServerMsg("llm", "error", <<>>)}

\* C23: when llm done or llm error is received while a response is awaited,
\* the awaiting flag is cleared and the status becomes in_call if no end of
\* the call is pending, and idle, with both sockets closed and every flag
\* cleared, if one is pending
C23_AnswerEndMovesOn ==
  [][\A m \in AnswerEnds :
       (client.awaitingResponse /\ Receive(m)) =>
         /\ ~client'.awaitingResponse
         /\ IF client.isEnding
            THEN /\ client'.status = "idle"
                 /\ client'.controlRef = "null" /\ client'.audioRef = "null"
                 /\ TurnFlags(client') = <<FALSE, FALSE, FALSE>>
            ELSE client'.status = "in_call"]_vars

\* the silence check of the audio callback is about to call finalizeTurn:
\* the callback is not guarded, a voiced frame was captured this turn, and
\* the frame is silent and later than SIL_MS after the last voice
FinalizeDue(c, silent, late) ==
  ~Guarded(c) /\ c.hasAudioForTurn /\ silent /\ late

\* C24: when the finalize guard would fire and the control channel is not
\* open, nothing is sent on the control channel, the status and every turn
\* flag stay as they were, and the finalize is due again at the next silent
\* frame
C24_FinalizeSkippedWhileControlNotOpen ==
  [][\A silent, late \in BOOLEAN :
       ( /\ onaudioprocess(silent, late)
         /\ FinalizeDue(client, silent, late)
         /\ client.controlRef # "open" ) =>
         /\ clientLog' = clientLog
         /\ client'.status = client.status
         /\ TurnFlags(client') = TurnFlags(client)
         /\ FinalizeDue(client', TRUE, client'.overdue)]_vars

\* in a call whose control socket has closed, the silence after a voiced
\* frame has lasted longer than SIL_MS and the turn is still open
C24_Witness ==
  /\ client.status = "in_call"
  /\ client.controlRef = "closed"
  /\ client.processorRef
  /\ client.hasAudioForTurn
  /\ client.overdue
  /\ ~Guarded(client)

\* C29: when the opening of either socket or the acquisition of the
\* microphone fails during startCall, the status becomes error, both sockets
\* and the audio processor are released, every turn flag is cleared, and the
\* Start button is enabled again
C29_StartFailureReleasesAll ==
  [][((\E k \in Sockets : SocketError(k)) \/ MicFail) =>
       /\ client'.status = "error"
       /\ client'.controlRef = "null" /\ client'.audioRef = "null"
       /\ ~client'.processorRef
       /\ TurnFlags(client') = <<FALSE, FALSE, FALSE>>
       /\ client'.stage = "none"
       /\ canStart(client')]_vars

\* the microphone was refused after both sockets had opened and start had
\* been sent
C29_Witness ==
  /\ clientLog # <<>>
  /\ clientLog[Len(clientLog)] = "start"
  /\ client.status = "error"
  /\ client.controlRef = "null" /\ client.audioRef = "null"
  /\ effects = Effects(FALSE, TRUE)

\* the partial transcripts the server may send
Partials == {m \in ServerMsgs : m.type = "partial_asr"}

\* no final transcript has arrived since the turn began: turnBaselineRef is
\* set to transcriptHistoryRef when a turn ends, and only final_asr changes
\* transcriptHistoryRef afterwards
TurnHasNoFinal(c) == c.turnBaseline = c.transcriptHistory

\* C28: the baseline of the partial_asr delta is empty at the start of every
\* new turn, so a partial transcript handled in a turn that has had no final
\* transcript yet is displayed whole, even when it begins with the final
\* transcript of an earlier turn
C28_PartialBaselineResetEachTurn ==
  [][\A m \in Partials :
       (Receive(m) /\ ~Guarded(client) /\ TurnHasNoFinal(client)) =>
         /\ client.transcriptHistory = <<>>
         /\ client'.asr = Trim(m.text)]_vars

\* a channel of the correlation id has attached
Attached ==
  \/ \E w \in CtrlIds : ctrlConn[w] # "none"
  \/ \E a \in AudioIds : audioConn[a] # "none"

\* a channel of the correlation id is open
SomeChannelOpen ==
  \/ \E w \in CtrlIds : ctrlConn[w] = "open"
  \/ \E a \in AudioIds : audioConn[a] = "open"

\* the control and the audio channel have both attached and are both closed
BothChannelsClosed ==
  /\ \E w \in CtrlIds : ctrlConn[w] = "closed"
  /\ \E a \in AudioIds : audioConn[a] = "closed"
  /\ ~SomeChannelOpen

\* C25: the session is in the registry from the first attach of a channel of
\* its correlation id, whichever channel attaches first, and is removed from
\* the registry once its control and audio channels are both closed
C25_SessionRegisteredWhileAttached ==
  /\ SomeChannelOpen => CID \in clients
  /\ ~Attached => CID \notin clients
  /\ BothChannelsClosed => CID \notin clients

\* the control messages that are not valid JSON, have no type, or have a
\* type other than start and end
Malformed ==
  ControlInputs \ {"{\"type\":\"start\"}", "{\"type\":\"end\"}"}

\* C26: a control message that is not valid JSON, has no type, or has a type
\* other than start and end leaves the session state as it was (buffer,
\* results, jobs, index, generation, session id, and the rest of it) and
\* sends nothing to the client
C26_MalformedControlIgnored ==
  [][\A w \in CtrlIds, data \in Malformed :
       ControlMessage(w, data) =>
         UNCHANGED <<cur, results, jobs, segIdx, transcriptionGen, sessionId,
                     totalBytes, ended, tasks, barriers, ready, creating,
                     relays, ctrlOut, connVars>>]_vars

\* a malformed control message was handled in a turn that has a session id,
\* a byte in the buffer and a pending job
C26_Witness ==
  /\ ignored > 0
  /\ sessionId # 0
  /\ cur # <<>>
  /\ \E t \in Range(jobs) : tasks[t].status = "pending"
  /\ barriers = <<>>

\* C30: a text frame received on the audio channel is dropped: it leaves the
\* buffer, the index and the outstanding jobs as they were and creates no
\* segment
C30_TextFrameDropped ==
  [][\A a \in AudioIds, n \in FrameSizes :
       AudioTextFrame(a, n) => UNCHANGED <<cur, segIdx, jobs, tasks>>]_vars

\* barrier b finalized the example turn: the segments of the generation it
\* fired in are three full segments, settled with the texts "", "hello there
\* how are" and "", and the control socket was open to take its messages
ExampleTurn(b) ==
  LET S == {t \in barriers[b].settled : tasks[t].gen = barriers[b].fireGen}
  IN  /\ \A t \in S : tasks[t].kind = "full" /\ tasks[t].status = "ok"
      /\ TextsIn(tasks, S) = ExampleOutputs
      /\ Len(FromBarrier(b)) > 0

\* what the barrier of the example turn sends, given the text of final_asr
ExampleMessages(b, text) ==
  << [FinalMsg(text, b) EXCEPT !.ws = barriers[b].ws],
     [LlmMsg("done",
             [tag |-> "structured", val |-> "insufficient_words",
              wordTotal |-> 4], b, 0)
        EXCEPT !.ws = barriers[b].ws] >>

\* C27 as stated: in the example turn the server sends final_asr with the
\* text "hello there how are", then llm done with reason insufficient_words
\* and wordTotal 4, and makes no Answer Service call
C27_ExampleTurnAsStated ==
  \A b \in Fired :
    ExampleTurn(b) =>
      /\ FromBarrier(b) = ExampleMessages(b, RAW_EXAMPLE)
      /\ barriers[b].relay = 0

\* C27 as the code has it: in the example turn the server sends final_asr
\* with empty text, then llm done with reason insufficient_words and
\* wordTotal 4, and makes no Answer Service call
C27_ExampleTurn ==
  \A b \in Fired :
    ExampleTurn(b) =>
      /\ FromBarrier(b) = ExampleMessages(b, <<>>)
      /\ barriers[b].relay = 0
      /\ relays = <<>>

\* the barrier of the example turn has fired, over the transcript "hello
\* there how are", with a session id to query the Answer Service with
C27_Witness ==
  \E b \in Fired :
    /\ ExampleTurn(b)
    /\ barriers[b].transcript = RAW_EXAMPLE
    /\ barriers[b].wordTotal = 4
    /\ sessionId # 0

\* a `start` command is handled, or the callback of a finalize barrier runs
StartOrFinalize == (\E w \in CtrlIds : CtrlStart(w)) \/ BarrierFire

\* C31: the generation counter never decreases: it increases by exactly one
\* on every `start` and on every completed finalize, and no other operation
\* (audio ingest, job completion, channel open or close) changes it
C31_GenerationMonotonic ==
  [][/\ transcriptionGen' >= transcriptionGen
     /\ StartOrFinalize => transcriptionGen' = transcriptionGen + 1
     /\ transcriptionGen' # transcriptionGen => StartOrFinalize]_vars

\* a `start` and a completed finalize have each bumped the generation, and a
\* job of an earlier generation has completed since
C31_Witness ==
  /\ transcriptionGen >= 2
  /\ creating # <<>>
  /\ Fired # {}
  /\ \E t \in 1..Len(tasks) :
       tasks[t].gen < transcriptionGen /\ tasks[t].status = "ok"

\* barrier b belongs to an `end` that a `start` has superseded: the
\* generation has moved on since the `end`, and no finalize has completed,
\* so that only a `start` can have moved it
SupersededByStart(b) ==
  /\ barriers[b].gen < transcriptionGen
  /\ Fired = {}
  /\ creating # <<>>

\* the messages a step appended to ctrlOut
NewlySent == SubSeq(ctrlOut', Len(ctrlOut) + 1, Len(ctrlOut'))

\* C32: when a `start` was handled between an `end` and the completion of
\* that `end`'s barrier, the superseded finalize sends no final_asr built
\* from the new turn's results, opens no relay with the new turn's session
\* id, and neither clears the new turn's buffer and results nor bumps its
\* generation
C32_SupersededFinalizeIsInert ==
  [][(ready # <<>> /\ SupersededByStart(Head(ready)) /\ BarrierFire) =>
       /\ \A i \in 1..Len(NewlySent) :
            IsFinal(NewlySent[i]) => NewlySent[i].text = <<>>
       /\ relays' = relays
       /\ UNCHANGED <<cur, results, jobs, segIdx, transcriptionGen>>]_vars

\* the position of the last startCall in the client's log (0: none)
RECURSIVE LastStart(_)
LastStart(log) ==
  IF log = <<>> THEN 0
  ELSE IF log[Len(log)] = "startCall" THEN Len(log)
  ELSE LastStart(SubSeq(log, 1, Len(log) - 1))

\* the client has sent {type: "end"} on the control socket of this call
EndSentThisCall ==
  \E i \in (LastStart(clientLog) + 1)..Len(clientLog) :
    clientLog[i] \in {"end_silence", "end_call"}

\* the server sends final_asr and llm events on a control socket only from
\* the callback of an `end` received on that socket and from the relay that
\* callback opened
Solicited(m) == m.type \in {"final_asr", "llm"} => EndSentThisCall

\* The client with a server that sends final_asr and llm events only after
\* an `end` of the same call.
ServedNext ==
  \/ startCall
  \/ \E k \in Sockets : SocketOpen(k) \/ SocketError(k) \/ SocketDrop(k)
  \/ MicReady
  \/ MicFail
  \/ \E silent, late \in BOOLEAN : onaudioprocess(silent, late)
  \/ endCall
  \/ \E m \in ServerMsgs : Solicited(m) /\ Receive(m)

SpecServed == Init /\ [][ServedNext]_vars

\* C33: the status and the turn flags of the client agree in every reachable
\* state: in_call implies that neither awaitingResponse nor isEnding is set,
\* processing implies that awaitingResponse is set and isEnding is not, and
\* ending implies that both are set
C33_StatusAgreesWithFlags ==
  /\ client.status = "in_call" =>
       ~client.awaitingResponse /\ ~client.isEnding
  /\ client.status = "processing" =>
       client.awaitingResponse /\ ~client.isEnding
  /\ client.status = "ending" =>
       client.awaitingResponse /\ client.isEnding

\* the client is back in_call after a turn that a silence finalized and the
\* server answered with llm done
C33_Witness ==
  /\ client.status = "in_call"
  /\ client.processorRef
  /\ Count(clientLog, "end_silence") > 0
  /\ clientLog[Len(clientLog)] = "llm_done"

\* the server delivers the llm done or llm error that answers an `end`
Answer == \E m \in AnswerEnds : Solicited(m) /\ Receive(m)

\* The client with a server that answers: an answer that can be delivered is
\* delivered eventually.
SpecAnswered == SpecServed /\ WF_vars(Answer)

\* the call is over: the Start button is enabled and both sockets are closed
CallOver ==
  /\ client.status \in {"idle", "error"}
  /\ client.controlRef = "null"
  /\ client.audioRef = "null"

\* C34: after endCall the client does not stay in ending forever: with a
\* server that answers every `end` it receives, the client reaches idle or
\* error with both sockets closed (or the model's bound on the messages the
\* client handles is reached), also when the control channel was not open
\* when endCall ran
C34_EndingTerminates ==
  (client.status = "ending") ~> (CallOver \/ MessagesLogged >= MaxServed)

SpokenInOrder ==
  /\ \A i, j \in 1..Len(spoken) : i < j => spoken[i] < spoken[j]
  /\ Len(synth.queue) <= 1
  /\ \A i \in 1..Len(spoken) : spoken[i] \notin cancelledTexts

\* C36: the speech output speaks texts in the order of the speak calls, with
\* at most one utterance active at a time; after cancel the queue is empty
\* and no utterance is active; and no text queued before a cancel is spoken
\* afterwards, also when the end or error callback of the cancelled utterance
\* runs after a later speak call
C36_SpeechQueue ==
  [][/\ SpokenInOrder'
     /\ (\E inside, lingers \in BOOLEAN : cancel(inside, lingers)) =>
          /\ queueRef' = <<>>
          /\ activeUtteranceRef' = 0
          /\ synth'.queue = <<>>]_vars

\* the callback of a cancelled utterance has run after a later speak call:
\* activeUtteranceRef is clear while the engine speaks the later text, and
\* another text waits in the queue
C36_Witness ==
  /\ activeUtteranceRef = 0
  /\ synth.queue # <<>>
  /\ synth.started
  /\ queueRef # <<>>
  /\ callbacks = {}

====
